---- MODULE Spec2Model ----
(***************************************************************************)
(* A model of the Cognify / S.H.I.A brain-atrophy application              *)
(* (src/atrophy/main.js): the shared application state, the file-loading   *)
(* and analysis pipeline handlers, and the normative-comparison engine     *)
(* that analyzeAtrophy runs.                                               *)
(*                                                                         *)
(* Numbers.  JavaScript numbers are modelled by exact rational arithmetic: *)
(*   - a real is a "mixed number" [i, f, d] standing for i + f/d with      *)
(*     0 <= f < d (i is the floor);                                        *)
(*   - a z-score rounded to two decimals is held in hundredths (z100);     *)
(*   - a BPF / HOC value rounded to three decimals is held in thousandths; *)
(*   - Math.round(x) is floor(x + 1/2).                                    *)
(* The percentile fields (normalCDF) are display-only and not modelled.    *)
(***************************************************************************)
EXTENDS Integers, Sequences, FiniteSets, TLC

VARIABLES
    nv1,               \* nv1.volumes: the viewer's volumes (scan first, then overlay)
    segmentationData,  \* the per-label voxel counts of a segmentation, or Null
    regionVolumes,     \* the volume observation, or Null
    uploadedFile,      \* the file kept for server inference, or Null
    analysisResults,   \* the shared report object, or Null
    analyzeBtnDisabled,\* #analyzeBtn.disabled
    analyzing,         \* body.classList contains "analyzing"
    cardsVisible,      \* summary/regional/findings/export cards shown
    patientAge,        \* parseInt(#patientAge.value); 0 stands for an empty field
    patientSex,        \* #patientSex.value
    loads,             \* per loadFile invocation: its position
    runs,              \* per runAnalysis invocation: its position and outcome
    exported,          \* what the last exportReport produced
    probe              \* a pure-function application: its arguments and result

vars == <<nv1, segmentationData, regionVolumes, uploadedFile, analysisResults,
          analyzeBtnDisabled, analyzing, cardsVisible, patientAge, patientSex,
          loads, runs, exported, probe>>

\* Absent values.  An optional number n is held as Num(n) = <<n>>, an object as
\* a record; both compare with Null and Undefined.
Null == << >>
Undefined == << << >>, << >> >>
Num(n) == << n >>

\* The element of a singleton.  A const of the code is bound as a variable
\* ranging over a singleton: Only({F(c) : c \in {value}}).
Only(S) == CHOOSE x \in S : TRUE

-----------------------------------------------------------------------------
(* Arithmetic helpers                                                      *)

Abs(n) == IF n < 0 THEN -n ELSE n

RECURSIVE GCD(_, _)
GCD(a, b) == IF b = 0 THEN a ELSE GCD(b, a % b)

\* The mixed number n/d (d > 0), in lowest terms.
Mx(n, d) ==
    LET f == n % d
        g == GCD(d, f)
    IN [i |-> n \div d, f |-> f \div g, d |-> d \div g]

MxInt(n) == [i |-> n, f |-> 0, d |-> 1]

MxAdd(a, b) ==
    LET d == a.d * b.d
        f == a.f * b.d + b.f * a.d
        m == Mx(f, d)
    IN [i |-> a.i + b.i + m.i, f |-> m.f, d |-> m.d]

MxNeg(a) ==
    IF a.f = 0 THEN [i |-> -a.i, f |-> 0, d |-> 1]
    ELSE [i |-> -a.i - 1, f |-> a.d - a.f, d |-> a.d]

MxSub(a, b) == MxAdd(a, MxNeg(b))

MxLt(a, b) == a.i < b.i \/ (a.i = b.i /\ a.f * b.d < b.f * a.d)

MxLe(a, b) == ~MxLt(b, a)

MxMax(a, b) == IF MxLt(a, b) THEN b ELSE a

MxMin(a, b) == IF MxLt(b, a) THEN b ELSE a

MxHalf(a) ==
    LET m == Mx((a.i % 2) * a.d + a.f, 2 * a.d)
    IN [i |-> (a.i \div 2) + m.i, f |-> m.f, d |-> m.d]

\* a * c for an integer c >= 0
MxScale(a, c) ==
    LET m == Mx(a.f * c, a.d)
    IN [i |-> a.i * c + m.i, f |-> m.f, d |-> m.d]

\* Math.round
MxRound(a) == a.i + (IF 2 * a.f >= a.d THEN 1 ELSE 0)

\* Math.round(n / d) for integers n, d > 0
RoundDiv(n, d) == MxRound(Mx(n, d))

\* Math.round(k * x / s) for a mixed number x and integers k, s > 0:
\* floor((2kx + s) / 2s), with the common factor of k and s cancelled first
\* and the integer part of x divided out, so that no product overflows.
RoundScaledDiv(k, x, s) ==
    LET g  == GCD(k, s)
        k1 == k \div g
        s1 == s \div g
        q  == x.i \div s1
        r  == x.i % s1
        fl == 2 * k1 * r + ((2 * k1 * x.f) \div x.d)
    IN k1 * q + ((fl + s1) \div (2 * s1))

-----------------------------------------------------------------------------
(* String helpers (String.prototype.toLowerCase / includes / replace)     *)

UpperAlphabet == "ABCDEFGHIJKLMNOPQRSTUVWXYZ"
LowerAlphabet == "abcdefghijklmnopqrstuvwxyz"

\* The lower-case letter of each upper-case letter
LowerOf ==
    [c \in {SubSeq(UpperAlphabet, i, i) : i \in 1..26} |->
       LET i == CHOOSE i \in 1..26 : SubSeq(UpperAlphabet, i, i) = c
       IN SubSeq(LowerAlphabet, i, i)]

LowerChar(c) == IF c \in DOMAIN LowerOf THEN LowerOf[c] ELSE c

RECURSIVE toLowerCase(_)
toLowerCase(s) ==
    IF s = "" THEN "" ELSE LowerChar(Head(s)) \o toLowerCase(Tail(s))

includes(s, t) ==
    \/ t = ""
    \/ \E i \in 1..(Len(s) - Len(t) + 1) : SubSeq(s, i, i + Len(t) - 1) = t

IsWhitespace(c) == c = " "

IsSeparator(c) == c = "-" \/ c = "_" \/ IsWhitespace(c)

\* s.replace(/\s+/g, '-')
RECURSIVE replaceWhitespaceRuns(_, _)
replaceWhitespaceRuns(s, inRun) ==
    IF s = "" THEN ""
    ELSE IF IsWhitespace(Head(s))
         THEN (IF inRun THEN "" ELSE "-") \o replaceWhitespaceRuns(Tail(s), TRUE)
         ELSE Head(s) \o replaceWhitespaceRuns(Tail(s), FALSE)

\* s.replace(/[-_\s]+/g, '')
RECURSIVE stripSeparators(_)
stripSeparators(s) ==
    IF s = "" THEN ""
    ELSE (IF IsSeparator(Head(s)) THEN "" ELSE Head(s)) \o stripSeparators(Tail(s))

-----------------------------------------------------------------------------
(* Reference tables                                                        *)

Sexes == {"male", "female"}

Region(maleMean, femaleMean, maleSd, femaleSd, invert, significance) ==
    [mean |-> [male |-> maleMean, female |-> femaleMean],
     sd |-> [male |-> maleSd, female |-> femaleSd],
     invertZscore |-> invert,
     clinicalSignificance |-> significance]

\* NORMATIVE_DATA.regions, in table (Object.entries) order
RegionKeys ==
    <<"Cerebral-White-Matter", "Cerebral-Cortex", "Lateral-Ventricle",
      "Inferior-Lateral-Ventricle", "Cerebellum-White-Matter",
      "Cerebellum-Cortex", "Thalamus", "Caudate", "Putamen", "Pallidum",
      "Hippocampus", "Amygdala", "Accumbens-area", "Brain-Stem", "VentralDC",
      "3rd-Ventricle", "4th-Ventricle">>

NORMATIVE_DATA_regions ==
    [k \in {RegionKeys[n] : n \in DOMAIN RegionKeys} |->
      CASE k = "Cerebral-White-Matter" ->
             Region(<<470000, 460000, 440000, 400000>>,
                    <<420000, 410000, 390000, 355000>>, 45000, 40000, FALSE, "low")
        [] k = "Cerebral-Cortex" ->
             Region(<<520000, 500000, 470000, 420000>>,
                    <<470000, 450000, 420000, 380000>>, 50000, 45000, FALSE, "medium")
        [] k = "Lateral-Ventricle" ->
             Region(<<14000, 18000, 28000, 45000>>,
                    <<12000, 15000, 24000, 38000>>, 8000, 7000, TRUE, "high")
        [] k = "Inferior-Lateral-Ventricle" ->
             Region(<<600, 900, 1500, 2800>>,
                    <<500, 750, 1300, 2400>>, 500, 450, TRUE, "high")
        [] k = "Cerebellum-White-Matter" ->
             Region(<<28000, 27000, 25000, 22000>>,
                    <<25000, 24000, 22000, 19000>>, 3500, 3000, FALSE, "low")
        [] k = "Cerebellum-Cortex" ->
             Region(<<105000, 100000, 92000, 82000>>,
                    <<95000, 90000, 83000, 74000>>, 12000, 10000, FALSE, "low")
        [] k = "Thalamus" ->
             Region(<<16400, 15600, 14400, 12800>>,
                    <<14800, 14000, 13000, 11600>>, 1400, 1200, FALSE, "medium")
        [] k = "Caudate" ->
             Region(<<8000, 7400, 6600, 5600>>,
                    <<7200, 6600, 5800, 5000>>, 900, 800, FALSE, "medium")
        [] k = "Putamen" ->
             Region(<<11600, 10800, 9600, 8200>>,
                    <<10400, 9600, 8600, 7400>>, 1100, 1000, FALSE, "medium")
        [] k = "Pallidum" ->
             Region(<<3800, 3600, 3300, 2900>>,
                    <<3400, 3200, 2900, 2560>>, 380, 340, FALSE, "medium")
        [] k = "Hippocampus" ->
             Region(<<8600, 8200, 7400, 6400>>,
                    <<7800, 7400, 6700, 5800>>, 700, 650, FALSE, "critical")
        [] k = "Amygdala" ->
             Region(<<3400, 3240, 2960, 2600>>,
                    <<3100, 2940, 2700, 2360>>, 360, 320, FALSE, "high")
        [] k = "Accumbens-area" ->
             Region(<<1200, 1120, 980, 820>>,
                    <<1080, 1000, 880, 740>>, 160, 140, FALSE, "low")
        [] k = "Brain-Stem" ->
             Region(<<22000, 21500, 20500, 19000>>,
                    <<19500, 19000, 18000, 16700>>, 2200, 2000, FALSE, "low")
        [] k = "VentralDC" ->
             Region(<<8400, 8000, 7400, 6600>>,
                    <<7600, 7200, 6600, 6000>>, 800, 700, FALSE, "low")
        [] k = "3rd-Ventricle" ->
             Region(<<800, 1000, 1400, 2000>>,
                    <<700, 900, 1200, 1700>>, 350, 300, TRUE, "medium")
        [] k = "4th-Ventricle" ->
             Region(<<1400, 1500, 1700, 2000>>,
                    <<1200, 1300, 1500, 1800>>, 500, 450, TRUE, "low")]

\* NORMATIVE_DATA.totalBrain
NORMATIVE_DATA_totalBrain ==
    [mean |-> [male |-> <<1350000, 1320000, 1270000, 1200000>>,
               female |-> <<1200000, 1170000, 1130000, 1070000>>],
     sd |-> [male |-> 95000, female |-> 80000]]

\* ICV_REGRESSION_COEFFICIENTS: the slope b of each region, in ten-thousandths
ICV_REGRESSION_COEFFICIENTS ==
    [k \in {"Hippocampus", "Thalamus", "Caudate", "Putamen", "Pallidum",
            "Amygdala", "Accumbens-area", "Lateral-Ventricle",
            "Inferior-Lateral-Ventricle", "Cerebral-White-Matter",
            "Cerebral-Cortex", "Cerebellum-Cortex", "Cerebellum-White-Matter",
            "Brain-Stem", "VentralDC"} |->
      CASE k = "Hippocampus" -> 37
        [] k = "Thalamus" -> 82
        [] k = "Caudate" -> 45
        [] k = "Putamen" -> 58
        [] k = "Pallidum" -> 19
        [] k = "Amygdala" -> 18
        [] k = "Accumbens-area" -> 6
        [] k = "Lateral-Ventricle" -> 85
        [] k = "Inferior-Lateral-Ventricle" -> 8
        [] k = "Cerebral-White-Matter" -> 2800
        [] k = "Cerebral-Cortex" -> 3200
        [] k = "Cerebellum-Cortex" -> 550
        [] k = "Cerebellum-White-Matter" -> 150
        [] k = "Brain-Stem" -> 120
        [] k = "VentralDC" -> 42]

ICV_REFERENCE ==
    [mean |-> [male |-> 1550000, female |-> 1350000],
     sd |-> [male |-> 130000, female |-> 110000]]

\* BPF_NORMATIVE.byAge: mean and sd in hundredths
BPF_NORMATIVE_byAge ==
    [a \in {20, 30, 40, 50, 60, 70, 80} |->
      CASE a = 20 -> [mean |-> 88, sd |-> 3]
        [] a = 30 -> [mean |-> 86, sd |-> 3]
        [] a = 40 -> [mean |-> 84, sd |-> 3]
        [] a = 50 -> [mean |-> 82, sd |-> 4]
        [] a = 60 -> [mean |-> 79, sd |-> 4]
        [] a = 70 -> [mean |-> 76, sd |-> 5]
        [] a = 80 -> [mean |-> 72, sd |-> 5]]

\* BPF_NORMATIVE.thresholds, as z100
BPF_NORMATIVE_thresholds ==
    [normal |-> -100, mild |-> -150, moderate |-> -200, severe |-> -250]

\* HOC_NORMATIVE.byAge: mean and sd in hundredths
HOC_NORMATIVE_byAge ==
    [a \in {50, 60, 70, 80} |->
      CASE a = 50 -> [mean |-> 92, sd |-> 4]
        [] a = 60 -> [mean |-> 88, sd |-> 5]
        [] a = 70 -> [mean |-> 82, sd |-> 6]
        [] a = 80 -> [mean |-> 75, sd |-> 8]]

\* HOC_NORMATIVE.interpretation / .conversionRisk: band minima in hundredths
HOC_NORMATIVE_interpretation ==
    [normal |-> [min |-> 80, label |-> "Normal"],
     mild |-> [min |-> 70, label |-> "Mild"],
     moderate |-> [min |-> 60, label |-> "Moderate"],
     severe |-> [label |-> "Severe"]]

HOC_NORMATIVE_conversionRisk ==
    [low |-> [risk |-> "Low"],
     moderate |-> [risk |-> "Moderate"],
     high |-> [risk |-> "High"],
     veryHigh |-> [risk |-> "Very High"]]

-----------------------------------------------------------------------------
(* The normative-comparison engine                                         *)
(* A volume observation is a sequence of entries [region, volume] in       *)
(* Object.entries order, with pairwise distinct region labels.             *)

Max(a, b) == IF a > b THEN a ELSE b

Min(a, b) == IF a < b THEN a ELSE b

\* region.toLowerCase().includes("ventricle")
IsVentricleLabel(region) == includes(toLowerCase(region), "ventricle")

\* region.toLowerCase().includes('hippocampus')
IsHippocampusLabel(region) == includes(toLowerCase(region), "hippocampus")

RECURSIVE SumVolumes(_, _)
SumVolumes(volumes, ventricular) ==
    IF volumes = << >> THEN 0
    ELSE (IF IsVentricleLabel(Head(volumes).region) = ventricular
          THEN Head(volumes).volume ELSE 0)
         + SumVolumes(Tail(volumes), ventricular)

\* volumes[label] || 0
VolumeOf(volumes, label) ==
    IF \E n \in DOMAIN volumes : volumes[n].region = label
    THEN volumes[CHOOSE n \in DOMAIN volumes : volumes[n].region = label].volume
    ELSE 0

\* Math.min(80, Math.max(lo, Math.round(age / 10) * 10))
AgeDecade(age, lo) == Min(80, Max(lo, RoundDiv(age, 10) * 10))

\* estimateICV keeping its primary estimate when outside the band: no averaging
estimateICVNeverAveraged(volumes, age, sex) ==
    LET segmentedTotal == SumVolumes(volumes, FALSE) + SumVolumes(volumes, TRUE)
        primary == Mx(SumVolumes(volumes, FALSE) * 100,
                      BPF_NORMATIVE_byAge[AgeDecade(age, 20)].mean)
        minICV == MxInt(ICV_REFERENCE.mean[sex] - 3 * ICV_REFERENCE.sd[sex])
        maxICV == MxInt(ICV_REFERENCE.mean[sex] + 3 * ICV_REFERENCE.sd[sex])
    IN MxRound(MxMax(MxMin(MxMax(primary, Mx(segmentedTotal * 105, 100)), maxICV),
                     minICV))

\* estimateICV without its floor at 1.05 times the segmented total
estimateICVUnfloored(volumes, age, sex) ==
    LET brainVolume == SumVolumes(volumes, FALSE)
        ventricleVolume == SumVolumes(volumes, TRUE)
        segmentedTotal == brainVolume + ventricleVolume
        ageDecade == AgeDecade(age, 20)
        expectedBPF == IF ageDecade \in DOMAIN BPF_NORMATIVE_byAge
                       THEN BPF_NORMATIVE_byAge[ageDecade].mean ELSE 76
        icvFromBPF == Mx(brainVolume * 100, expectedBPF)
        icvFromAnatomical == Mx(segmentedTotal * 112, 100)
        refICV == ICV_REFERENCE.mean[sex]
        refSD == ICV_REFERENCE.sd[sex]
        minICV == MxInt(refICV - 3 * refSD)
        maxICV == MxInt(refICV + 3 * refSD)
        primary == IF MxLt(icvFromBPF, minICV) \/ MxLt(maxICV, icvFromBPF)
                   THEN MxHalf(MxAdd(icvFromBPF, icvFromAnatomical))
                   ELSE icvFromBPF
        floored == primary
        capped == MxMin(floored, maxICV)
        bounded == MxMax(capped, minICV)
    IN MxRound(bounded)

estimateICV(volumes, age, sex) ==
    LET brainVolume == SumVolumes(volumes, FALSE)
        ventricleVolume == SumVolumes(volumes, TRUE)
        segmentedTotal == brainVolume + ventricleVolume
        ageDecade == AgeDecade(age, 20)
        expectedBPF == IF ageDecade \in DOMAIN BPF_NORMATIVE_byAge
                       THEN BPF_NORMATIVE_byAge[ageDecade].mean ELSE 76
        icvFromBPF == Mx(brainVolume * 100, expectedBPF)
        icvFromAnatomical == Mx(segmentedTotal * 112, 100)
        refICV == ICV_REFERENCE.mean[sex]
        refSD == ICV_REFERENCE.sd[sex]
        minICV == MxInt(refICV - 3 * refSD)
        maxICV == MxInt(refICV + 3 * refSD)
        primary == IF MxLt(icvFromBPF, minICV) \/ MxLt(maxICV, icvFromBPF)
                   THEN MxHalf(MxAdd(icvFromBPF, icvFromAnatomical))
                   ELSE icvFromBPF
        floored == MxMax(primary, Mx(segmentedTotal * 105, 100))
        capped == MxMin(floored, maxICV)
        bounded == MxMax(capped, minICV)
    IN MxRound(bounded)

\* applyICVNormalization without its floor at 0
applyICVNormalizationUnfloored(volume, region, icv, sex) ==
    IF region \notin DOMAIN ICV_REGRESSION_COEFFICIENTS THEN MxInt(volume)
    ELSE MxSub(MxInt(volume),
               Mx(ICV_REGRESSION_COEFFICIENTS[region] * (icv - ICV_REFERENCE.mean[sex]),
                  10000))

\* applyICVNormalization returning the raw volume: no residual correction
applyICVNormalizationOmitted(volume, region, icv, sex) == MxInt(volume)

\* The normalized volume, a mixed number.
applyICVNormalization(volume, region, icv, sex) ==
    IF region \notin DOMAIN ICV_REGRESSION_COEFFICIENTS THEN MxInt(volume)
    ELSE LET b == ICV_REGRESSION_COEFFICIENTS[region]
             icvMean == ICV_REFERENCE.mean[sex]
             adjustedVolume == MxSub(MxInt(volume), Mx(b * (icv - icvMean), 10000))
         IN MxMax(MxInt(0), adjustedVolume)

\* The age-adjusted SD, in thousandths: baseSd * (1 + (age - 50) / 100 * 0.1)
getAgeAdjustedSD(baseSd, age) ==
    baseSd * (IF age > 50 THEN 1000 + (age - 50) ELSE 1000)

AnchorAges == <<20, 40, 60, 80>>

\* while (i < 3 && ages[i + 1] < age) i++   (1-based index of the lower anchor)
RECURSIVE BracketIndex(_, _)
BracketIndex(i, age) ==
    IF i < 3 /\ AnchorAges[i + 1] < age THEN BracketIndex(i + 1, age) ELSE i

\* interpolateByAge without the interpolation: the value at the lower anchor
interpolateByAgeStepwise(ageValues, age) ==
    IF age <= 20 THEN MxInt(ageValues[1])
    ELSE IF age >= 80 THEN MxInt(ageValues[4])
    ELSE MxInt(ageValues[BracketIndex(1, age)])

\* The interpolated value, a mixed number.
interpolateByAge(ageValues, age) ==
    IF age <= 20 THEN MxInt(ageValues[1])
    ELSE IF age >= 80 THEN MxInt(ageValues[4])
    ELSE LET i == BracketIndex(1, age)
             span == AnchorAges[i + 1] - AnchorAges[i]
         IN Mx(ageValues[i] * span + (age - AnchorAges[i]) * (ageValues[i + 1] - ageValues[i]),
               span)

\* interpretZScore with strict comparisons: a boundary value falls in the worse
\* bucket
interpretZScoreStrict(zscore, invertZscore) ==
    LET effectiveZ == IF invertZscore THEN -zscore ELSE zscore
    IN IF effectiveZ > -100 THEN "normal"
       ELSE IF effectiveZ > -150 THEN "low-normal"
       ELSE IF effectiveZ > -200 THEN "mild"
       ELSE IF effectiveZ > -250 THEN "moderate"
       ELSE "severe"

interpretZScore(zscore, invertZscore) ==
    LET effectiveZ == IF invertZscore THEN -zscore ELSE zscore
    IN IF effectiveZ >= -100 THEN "normal"
       ELSE IF effectiveZ >= -150 THEN "low-normal"
       ELSE IF effectiveZ >= -200 THEN "mild"
       ELSE IF effectiveZ >= -250 THEN "moderate"
       ELSE "severe"

\* RoundedZscore with the operands of the subtraction swapped
RoundedZscoreSwapped(normalizedVolume, expectedMean, adjustedSd) ==
    RoundScaledDiv(100000, MxSub(expectedMean, normalizedVolume), adjustedSd)

\* Math.round(((normalizedVolume - expectedMean) / adjustedSd) * 100)
RoundedZscore(normalizedVolume, expectedMean, adjustedSd) ==
    RoundScaledDiv(100000, MxSub(normalizedVolume, expectedMean), adjustedSd)

RegionKeySet == {RegionKeys[n] : n \in DOMAIN RegionKeys}

\* The alias table of findNormativeData
Aliases ==
    [a \in {"accumbens", "nucleusaccumbens", "ventraldc", "ventraldiencephalon",
            "brainstem", "inflatventricle", "inferiorlateralventricle",
            "lateralventricle", "cerebralwhitematter", "cerebralcortex",
            "cerebellumwhitematter", "cerebellumcortex", "3rdventricle",
            "thirdventricle", "4thventricle", "fourthventricle"} |->
      CASE a \in {"accumbens", "nucleusaccumbens"} -> "Accumbens-area"
        [] a \in {"ventraldc", "ventraldiencephalon"} -> "VentralDC"
        [] a = "brainstem" -> "Brain-Stem"
        [] a \in {"inflatventricle", "inferiorlateralventricle"} ->
             "Inferior-Lateral-Ventricle"
        [] a = "lateralventricle" -> "Lateral-Ventricle"
        [] a = "cerebralwhitematter" -> "Cerebral-White-Matter"
        [] a = "cerebralcortex" -> "Cerebral-Cortex"
        [] a = "cerebellumwhitematter" -> "Cerebellum-White-Matter"
        [] a = "cerebellumcortex" -> "Cerebellum-Cortex"
        [] a \in {"3rdventricle", "thirdventricle"} -> "3rd-Ventricle"
        [] a \in {"4thventricle", "fourthventricle"} -> "4th-Ventricle"]

\* lowerName === lowerKey || lowerName.includes(lowerKey) || lowerKey.includes(lowerName)
FuzzyMatches(lowerName, key) ==
    LET lowerKey == stripSeparators(toLowerCase(key))
    IN lowerName = lowerKey \/ includes(lowerName, lowerKey) \/ includes(lowerKey, lowerName)

\* Members every object inherits from Object.prototype: a property read
\* NORMATIVE_DATA.regions[name] finds them as it finds the table's own keys
ObjectPrototypeKeys ==
    {"constructor", "toString", "valueOf", "hasOwnProperty", "isPrototypeOf",
     "propertyIsEnumerable", "toLocaleString", "__proto__"}

\* NORMATIVE_DATA.regions[name] is truthy
HasRegionProperty(name) == name \in RegionKeySet \cup ObjectPrototypeKeys

\* The matched reference key (matchedName) of a label as << key >>, or Null.
\* (An inherited member of the alias table is no key of the reference table.)
findNormativeData(regionName) ==
    LET normalizedName == replaceWhitespaceRuns(regionName, FALSE)
        lowerName == stripSeparators(toLowerCase(regionName))
        aliasKey == stripSeparators(lowerName)
    IN IF HasRegionProperty(regionName) THEN << regionName >>
       ELSE IF HasRegionProperty(normalizedName) THEN << normalizedName >>
       ELSE IF \E n \in DOMAIN RegionKeys : FuzzyMatches(lowerName, RegionKeys[n])
       THEN << RegionKeys[CHOOSE n \in DOMAIN RegionKeys :
                            /\ FuzzyMatches(lowerName, RegionKeys[n])
                            /\ \A m \in 1..(n - 1) :
                                  ~FuzzyMatches(lowerName, RegionKeys[m])] >>
       ELSE IF aliasKey \in DOMAIN Aliases /\ Aliases[aliasKey] \in RegionKeySet
       THEN << Aliases[aliasKey] >>
       ELSE Null

calculateBPF(volumes, icv, age) ==
    LET brainVolume == SumVolumes(volumes, FALSE)
        ageDecade == AgeDecade(age, 20)
        normative == IF ageDecade \in DOMAIN BPF_NORMATIVE_byAge
                     THEN BPF_NORMATIVE_byAge[ageDecade] ELSE BPF_NORMATIVE_byAge[70]
        \* zscore = (bpf - mean) / sd = num / den
        num == 100 * brainVolume - normative.mean * icv
        den == normative.sd * icv
        \* zscore >= t / 100, on the unrounded z-score
        AtLeast(t) == MxScale(Mx(num, den), 100).i >= t
        interpretation ==
            IF AtLeast(BPF_NORMATIVE_thresholds.normal) THEN "Normal"
            ELSE IF AtLeast(BPF_NORMATIVE_thresholds.mild) THEN "Low-Normal"
            ELSE IF AtLeast(BPF_NORMATIVE_thresholds.moderate) THEN "Mild Atrophy"
            ELSE IF AtLeast(BPF_NORMATIVE_thresholds.severe) THEN "Moderate Atrophy"
            ELSE "Severe Atrophy"
    IN [value |-> MxRound(MxScale(Mx(brainVolume, icv), 1000)),
        zscore |-> MxRound(MxScale(Mx(num, den), 100)),
        interpretation |-> interpretation,
        expected |-> normative.mean,
        brainVolume |-> brainVolume,
        icv |-> icv]

calculateHOC(volumes, age) ==
    LET hippoVol == VolumeOf(volumes, "Hippocampus")
        ilvVol == VolumeOf(volumes, "Inferior-Lateral-Ventricle")
        ageDecade == AgeDecade(age, 50)
        normative == IF ageDecade \in DOMAIN HOC_NORMATIVE_byAge
                     THEN HOC_NORMATIVE_byAge[ageDecade] ELSE HOC_NORMATIVE_byAge[70]
        \* hoc = hippoVol / (hippoVol + ilvVol)
        hoc == Mx(hippoVol, hippoVol + ilvVol)
        \* hoc >= m / 100, on the unrounded score
        AtLeast(m) == MxScale(hoc, 100).i >= m
        \* zscore = (hoc - mean) / sd
        zscore == Mx(100 * hippoVol - normative.mean * (hippoVol + ilvVol),
                     normative.sd * (hippoVol + ilvVol))
        band == IF AtLeast(HOC_NORMATIVE_interpretation.normal.min) THEN "normal"
                ELSE IF AtLeast(HOC_NORMATIVE_interpretation.mild.min) THEN "mild"
                ELSE IF AtLeast(HOC_NORMATIVE_interpretation.moderate.min) THEN "moderate"
                ELSE "severe"
        conversionRisk == CASE band = "normal" -> HOC_NORMATIVE_conversionRisk.low
                            [] band = "mild" -> HOC_NORMATIVE_conversionRisk.moderate
                            [] band = "moderate" -> HOC_NORMATIVE_conversionRisk.high
                            [] OTHER -> HOC_NORMATIVE_conversionRisk.veryHigh
    IN IF hippoVol = 0
       THEN [value |-> Null,
             interpretation |-> "Unable to calculate - hippocampus not segmented"]
       ELSE [value |-> Num(MxRound(MxScale(hoc, 1000))),
             zscore |-> MxRound(MxScale(zscore, 100)),
             interpretation |-> HOC_NORMATIVE_interpretation[band].label,
             conversionRisk |-> conversionRisk.risk,
             hippoVolume |-> hippoVol,
             ilvVolume |-> ilvVol,
             expected |-> normative.mean]

\* generateFinding: the severity of a region's finding
generateFinding(region, zscore, invertZscore) ==
    LET effectiveZ == IF invertZscore THEN -zscore ELSE zscore
        severity ==
            IF invertZscore
            THEN (IF zscore > 200 THEN "danger"
                  ELSE IF zscore > 150 THEN "warning" ELSE "info")
            ELSE (IF effectiveZ < -250 THEN "danger"
                  ELSE IF effectiveZ < -200 THEN "danger"
                  ELSE IF effectiveZ < -150 THEN "warning" ELSE "info")
    IN [severity |-> severity, type |-> "region", region |-> region,
        interpretation |-> interpretZScore(zscore, invertZscore)]

\* significanceThresholds[normData.clinicalSignificance] || -1.5, as z100
SignificanceThreshold(significance) ==
    CASE significance = "critical" -> -100
      [] significance = "high" -> -150
      [] significance = "medium" -> -150
      [] significance = "low" -> -200
      [] OTHER -> -150

\* JavaScript truthiness of a number-or-absent value
Truthy(x) == x # Null /\ x # Undefined /\ x[1] # 0

\* One entry of analysisResults.regions, from the reference key its label
\* resolved to (matchedName) and its z-score
RegionEntry(entry, matchedName, normalizedVolume, expectedMean, roundedZscore) ==
    LET normData == NORMATIVE_DATA_regions[matchedName]
        effectiveZ == IF normData.invertZscore THEN -roundedZscore ELSE roundedZscore
    IN [region |-> entry.region,
        volume |-> entry.volume,
        normalizedVolume |-> MxRound(normalizedVolume),
        zscore |-> roundedZscore,
        effectiveZscore |-> effectiveZ,
        interpretation |-> interpretZScore(roundedZscore, normData.invertZscore),
        matchedName |-> matchedName,
        invertZscore |-> normData.invertZscore,
        clinicalSignificance |-> normData.clinicalSignificance,
        expectedVolume |-> MxRound(expectedMean)]

\* The z-score of the entry is rounded
RegionScored(entry, matchedName, normalizedVolume, expectedMean, adjustedSd) ==
    Only({RegionEntry(entry, matchedName, normalizedVolume, expectedMean, roundedZscore) :
            roundedZscore \in {RoundedZscore(normalizedVolume, expectedMean, adjustedSd)}})

\* The volume of the entry is normalized, the SD age-adjusted and the expected
\* mean interpolated
RegionMatched(entry, matchedName, icv, age, sex) ==
    Only({RegionScored(entry, matchedName, normalizedVolume, expectedMean, adjustedSd) :
            normalizedVolume \in
                {applyICVNormalization(entry.volume, entry.region, icv, sex)},
            adjustedSd \in
                {getAgeAdjustedSD(NORMATIVE_DATA_regions[matchedName].sd[sex], age)},
            expectedMean \in
                {interpolateByAge(NORMATIVE_DATA_regions[matchedName].mean[sex], age)}})

\* The body of the regions loop for one entry whose label resolves to a
\* reference key
RegionResult(entry, icv, age, sex) ==
    Only({RegionMatched(entry, matchedName, icv, age, sex) :
            matchedName \in {findNormativeData(entry.region)[1]}})

\* results.regions[label]?.field
RegionField(regions, label, field) ==
    IF \E n \in DOMAIN regions : regions[n].region = label
    THEN Num(regions[CHOOSE n \in DOMAIN regions : regions[n].region = label][field])
    ELSE Undefined

\* The regions loop of analyzeAtrophy: the entries of the regions map, in order
AnalyzeRegions(volumes, icv, age, sex) ==
    LET known == SelectSeq(volumes, LAMBDA e : findNormativeData(e.region) # Null)
    IN Only({[n \in DOMAIN entries |-> RegionResult(entries[n], icv, age, sex)] :
               entries \in {known}})

\* hippocampusZscore: the effective z of the last hippocampus-labelled region
HippocampusZscore(regions) ==
    LET hits == SelectSeq(regions, LAMBDA r : IsHippocampusLabel(r.region))
    IN IF hits = << >> THEN Null ELSE Num(hits[Len(hits)].effectiveZscore)

\* effectiveZ < threshold || (invertZscore && roundedZscore > Math.abs(threshold))
HasFinding(r) ==
    LET threshold == SignificanceThreshold(r.clinicalSignificance)
    IN r.effectiveZscore < threshold \/ (r.invertZscore /\ r.zscore > Abs(threshold))

RegionFindings(regions) ==
    LET flagged == SelectSeq(regions, HasFinding)
    IN [n \in DOMAIN flagged |->
          generateFinding(flagged[n].region, flagged[n].zscore, flagged[n].invertZscore)]

\* STEP 4 of analyzeAtrophy with one description for each verdict
AtrophyRiskOneDescription(regions, hocValue, bpfZscore) ==
    LET criticalAtrophyCount ==
            Len(SelectSeq(regions, LAMBDA r : r.effectiveZscore < -250))
        moderateAtrophyCount ==
            Len(SelectSeq(regions, LAMBDA r : ~(r.effectiveZscore < -250)
                                              /\ r.effectiveZscore < -200))
        mildAtrophyCount ==
            Len(SelectSeq(regions, LAMBDA r : ~(r.effectiveZscore < -200)
                                              /\ r.effectiveZscore < -150))
        hippocampusZscore == HippocampusZscore(regions)
        HippoBelow(t) == hippocampusZscore # Null /\ hippocampusZscore[1] < t
        HocBelow(t) == Truthy(hocValue) /\ hocValue[1] < t
    IN IF criticalAtrophyCount >= 2 \/ HippoBelow(-250) \/ HocBelow(600)
       THEN [atrophyRisk |-> "High",
             riskDescription |->
               "Significant atrophy detected - clinical correlation strongly recommended"]
       ELSE IF moderateAtrophyCount >= 1 \/ criticalAtrophyCount >= 1
               \/ HippoBelow(-200) \/ HocBelow(700)
       THEN [atrophyRisk |-> "Moderate",
             riskDescription |->
               "Notable atrophy present - consider neuropsychological evaluation"]
       ELSE IF mildAtrophyCount >= 2 \/ HippoBelow(-150)
               \/ (Truthy(bpfZscore) /\ bpfZscore[1] < -150) \/ HocBelow(750)
       THEN [atrophyRisk |-> "Mild",
             riskDescription |->
               "Mild volume reductions detected - monitoring recommended"]
       ELSE IF mildAtrophyCount >= 1 \/ HippoBelow(-100) \/ HocBelow(800)
       THEN [atrophyRisk |-> "Low-Normal",
             riskDescription |->
               "Volumes in low-normal range for age"]
       ELSE [atrophyRisk |-> "Normal",
             riskDescription |-> "Volumes within expected range for age and sex"]

\* STEP 4 of analyzeAtrophy without the branch of the Mild verdict
AtrophyRiskWithoutMild(regions, hocValue, bpfZscore) ==
    LET criticalAtrophyCount ==
            Len(SelectSeq(regions, LAMBDA r : r.effectiveZscore < -250))
        moderateAtrophyCount ==
            Len(SelectSeq(regions, LAMBDA r : ~(r.effectiveZscore < -250)
                                              /\ r.effectiveZscore < -200))
        mildAtrophyCount ==
            Len(SelectSeq(regions, LAMBDA r : ~(r.effectiveZscore < -200)
                                              /\ r.effectiveZscore < -150))
        hippocampusZscore == HippocampusZscore(regions)
        HippoBelow(t) == hippocampusZscore # Null /\ hippocampusZscore[1] < t
        HocBelow(t) == Truthy(hocValue) /\ hocValue[1] < t
    IN IF criticalAtrophyCount >= 2 \/ HippoBelow(-250) \/ HocBelow(600)
       THEN [atrophyRisk |-> "High",
             riskDescription |->
               "Significant atrophy detected - clinical correlation strongly recommended"]
       ELSE IF moderateAtrophyCount >= 1 \/ criticalAtrophyCount >= 1
               \/ HippoBelow(-200) \/ HocBelow(700)
       THEN [atrophyRisk |-> "Moderate",
             riskDescription |->
               "Notable atrophy present - consider neuropsychological evaluation"]
       ELSE IF mildAtrophyCount >= 1 \/ HippoBelow(-100) \/ HocBelow(800)
       THEN [atrophyRisk |-> "Low-Normal",
             riskDescription |->
               IF HocBelow(800)
               THEN "HOC in low-normal range - consider baseline for future comparison"
               ELSE "Volumes in low-normal range for age"]
       ELSE [atrophyRisk |-> "Normal",
             riskDescription |-> "Volumes within expected range for age and sex"]

\* STEP 4 of analyzeAtrophy: the verdict and its description
AtrophyRisk(regions, hocValue, bpfZscore) ==
    LET criticalAtrophyCount ==
            Len(SelectSeq(regions, LAMBDA r : r.effectiveZscore < -250))
        moderateAtrophyCount ==
            Len(SelectSeq(regions, LAMBDA r : ~(r.effectiveZscore < -250)
                                              /\ r.effectiveZscore < -200))
        mildAtrophyCount ==
            Len(SelectSeq(regions, LAMBDA r : ~(r.effectiveZscore < -200)
                                              /\ r.effectiveZscore < -150))
        hippocampusZscore == HippocampusZscore(regions)
        HippoBelow(t) == hippocampusZscore # Null /\ hippocampusZscore[1] < t
        HocBelow(t) == Truthy(hocValue) /\ hocValue[1] < t
    IN IF criticalAtrophyCount >= 2 \/ HippoBelow(-250) \/ HocBelow(600)
       THEN [atrophyRisk |-> "High",
             riskDescription |->
               "Significant atrophy detected - clinical correlation strongly recommended"]
       ELSE IF moderateAtrophyCount >= 1 \/ criticalAtrophyCount >= 1
               \/ HippoBelow(-200) \/ HocBelow(700)
       THEN [atrophyRisk |-> "Moderate",
             riskDescription |->
               "Notable atrophy present - consider neuropsychological evaluation"]
       ELSE IF mildAtrophyCount >= 2 \/ HippoBelow(-150)
               \/ (Truthy(bpfZscore) /\ bpfZscore[1] < -150) \/ HocBelow(750)
       THEN [atrophyRisk |-> "Mild",
             riskDescription |->
               IF HocBelow(750)
               THEN "Subtle medial temporal changes detected (HOC reduced) - neuropsychological evaluation recommended"
               ELSE "Mild volume reductions detected - monitoring recommended"]
       ELSE IF mildAtrophyCount >= 1 \/ HippoBelow(-100) \/ HocBelow(800)
       THEN [atrophyRisk |-> "Low-Normal",
             riskDescription |->
               IF HocBelow(800)
               THEN "HOC in low-normal range - consider baseline for future comparison"
               ELSE "Volumes in low-normal range for age"]
       ELSE [atrophyRisk |-> "Normal",
             riskDescription |-> "Volumes within expected range for age and sex"]

\* The HOC finding without the test for a null value (null compares as 0)
HocFindingsUnguarded(hoc) ==
    LET value == IF hoc.value = Null THEN 0 ELSE hoc.value[1]
    IN IF value < 600 THEN << [severity |-> "danger", type |-> "hoc"] >>
       ELSE IF value < 700 THEN << [severity |-> "warning", type |-> "hoc"] >>
       ELSE IF value < 800 THEN << [severity |-> "info", type |-> "hoc"] >>
       ELSE << >>

\* The HOC finding unshifted onto the findings, if any
HocFindings(hoc) ==
    IF hoc.value = Null THEN << >>
    ELSE IF hoc.value[1] < 600 THEN << [severity |-> "danger", type |-> "hoc"] >>
    ELSE IF hoc.value[1] < 700 THEN << [severity |-> "warning", type |-> "hoc"] >>
    ELSE IF hoc.value[1] < 800 THEN << [severity |-> "info", type |-> "hoc"] >>
    ELSE << >>

\* The BPF finding unshifted onto the findings, if any
BpfFindings(bpf) ==
    IF bpf.zscore < -150
    THEN << [severity |-> IF bpf.zscore < -200 THEN "danger" ELSE "warning",
             type |-> "bpf"] >>
    ELSE << >>

\* severityOrder[a.severity] || 3
SortKey(finding) ==
    LET severityOrder == CASE finding.severity = "danger" -> Num(0)
                           [] finding.severity = "warning" -> Num(1)
                           [] finding.severity = "info" -> Num(2)
                           [] OTHER -> Undefined
    IN IF Truthy(severityOrder) THEN severityOrder[1] ELSE 3

RECURSIVE SortedFrom(_, _)
SortedFrom(findings, key) ==
    IF key > 3 THEN << >>
    ELSE SelectSeq(findings, LAMBDA f : SortKey(f) = key) \o SortedFrom(findings, key + 1)

\* findings.sort(by SortKey): Array.prototype.sort is stable
SortFindings(findings) == SortedFrom(findings, 0)

\* validateAnalysisResults recommending review from the second extreme
\* z-score on
validateAnalysisResultsFromTwo(results) ==
    LET extreme == SelectSeq(results.regions, LAMBDA r : Abs(r.zscore) > 350)
        extremeWarnings == [n \in DOMAIN extreme |-> "extreme_zscore"]
        manyExtreme == Len(extreme) >= 2
        bpfHigh == results.bpf # Null /\ results.bpf.value > 920
        bpfLow == results.bpf # Null /\ ~bpfHigh /\ results.bpf.value < 550
        hippoRaw == RegionField(results.regions, "Hippocampus", "volume")
        amygRaw == RegionField(results.regions, "Amygdala", "volume")
        hippoVol == IF Truthy(hippoRaw) THEN hippoRaw[1] ELSE 0
        amygVol == IF Truthy(amygRaw) THEN amygRaw[1] ELSE 0
        \* ratio < 1.2 || ratio > 4.5
        oddRatio == hippoVol > 0 /\ amygVol > 0
                    /\ (10 * hippoVol < 12 * amygVol \/ 10 * hippoVol > 45 * amygVol)
        totalBrain == results.totalBrainVolume
        brainLow == totalBrain > 0 /\ totalBrain < 800000
        brainHigh == totalBrain > 0 /\ ~brainLow /\ totalBrain > 1700000
        lvZ == RegionField(results.regions, "Lateral-Ventricle", "zscore")
        hippoZ == RegionField(results.regions, "Hippocampus", "effectiveZscore")
        discordant == lvZ # Undefined /\ hippoZ # Undefined
                      /\ hippoZ[1] < -200 /\ lvZ[1] < -100
        Issue(cond, name) == IF cond THEN << name >> ELSE << >>
        possibleIssues ==
            Issue(manyExtreme, "multiple_extreme_zscores")
            \o Issue(bpfHigh, "bpf_too_high") \o Issue(bpfLow, "bpf_very_low")
            \o Issue(oddRatio, "unusual_volume_ratio")
            \o Issue(brainLow, "brain_volume_low") \o Issue(brainHigh, "brain_volume_high")
            \o Issue(discordant, "discordant_atrophy_pattern")
        warnings ==
            extremeWarnings
            \o Issue(bpfHigh, "bpf_too_high") \o Issue(bpfLow, "bpf_very_low")
            \o Issue(oddRatio, "unusual_volume_ratio")
            \o Issue(brainLow, "brain_volume_low") \o Issue(brainHigh, "brain_volume_high")
            \o Issue(discordant, "discordant_atrophy_pattern")
        overallQuality == IF manyExtreme \/ bpfHigh THEN "review_recommended" ELSE "good"
    IN [isValid |-> Len(warnings) = 0,
        warnings |-> warnings,
        flags |-> [overallQuality |-> overallQuality, possibleIssues |-> possibleIssues],
        recommendedAction |->
          IF overallQuality = "review_recommended"
          THEN "Results may require clinical review due to unusual findings"
          ELSE "Results appear consistent with expected values"]

validateAnalysisResults(results) ==
    LET extreme == SelectSeq(results.regions, LAMBDA r : Abs(r.zscore) > 350)
        extremeWarnings == [n \in DOMAIN extreme |-> "extreme_zscore"]
        manyExtreme == Len(extreme) >= 3
        bpfHigh == results.bpf # Null /\ results.bpf.value > 920
        bpfLow == results.bpf # Null /\ ~bpfHigh /\ results.bpf.value < 550
        hippoRaw == RegionField(results.regions, "Hippocampus", "volume")
        amygRaw == RegionField(results.regions, "Amygdala", "volume")
        hippoVol == IF Truthy(hippoRaw) THEN hippoRaw[1] ELSE 0
        amygVol == IF Truthy(amygRaw) THEN amygRaw[1] ELSE 0
        \* ratio < 1.2 || ratio > 4.5
        oddRatio == hippoVol > 0 /\ amygVol > 0
                    /\ (10 * hippoVol < 12 * amygVol \/ 10 * hippoVol > 45 * amygVol)
        totalBrain == results.totalBrainVolume
        brainLow == totalBrain > 0 /\ totalBrain < 800000
        brainHigh == totalBrain > 0 /\ ~brainLow /\ totalBrain > 1700000
        lvZ == RegionField(results.regions, "Lateral-Ventricle", "zscore")
        hippoZ == RegionField(results.regions, "Hippocampus", "effectiveZscore")
        discordant == lvZ # Undefined /\ hippoZ # Undefined
                      /\ hippoZ[1] < -200 /\ lvZ[1] < -100
        Issue(cond, name) == IF cond THEN << name >> ELSE << >>
        possibleIssues ==
            Issue(manyExtreme, "multiple_extreme_zscores")
            \o Issue(bpfHigh, "bpf_too_high") \o Issue(bpfLow, "bpf_very_low")
            \o Issue(oddRatio, "unusual_volume_ratio")
            \o Issue(brainLow, "brain_volume_low") \o Issue(brainHigh, "brain_volume_high")
            \o Issue(discordant, "discordant_atrophy_pattern")
        warnings ==
            extremeWarnings
            \o Issue(bpfHigh, "bpf_too_high") \o Issue(bpfLow, "bpf_very_low")
            \o Issue(oddRatio, "unusual_volume_ratio")
            \o Issue(brainLow, "brain_volume_low") \o Issue(brainHigh, "brain_volume_high")
            \o Issue(discordant, "discordant_atrophy_pattern")
        overallQuality == IF manyExtreme \/ bpfHigh THEN "review_recommended" ELSE "good"
    IN [isValid |-> Len(warnings) = 0,
        warnings |-> warnings,
        flags |-> [overallQuality |-> overallQuality, possibleIssues |-> possibleIssues],
        recommendedAction |->
          IF overallQuality = "review_recommended"
          THEN "Results may require clinical review due to unusual findings"
          ELSE "Results appear consistent with expected values"]

\* detectClinicalPatterns leaving the Early-MCI confidence at its base
detectClinicalPatternsUnraised(results) ==
    LET hippoZ == RegionField(results.regions, "Hippocampus", "effectiveZscore")
        amygZ == RegionField(results.regions, "Amygdala", "effectiveZscore")
        caudateZ == RegionField(results.regions, "Caudate", "effectiveZscore")
        wmZ == RegionField(results.regions, "Cerebral-White-Matter", "effectiveZscore")
        ilvZ == RegionField(results.regions, "Inferior-Lateral-Ventricle", "zscore")
        hoc == IF results.hoc = Null THEN Undefined ELSE results.hoc.value
        bpfZ == IF results.bpf = Null THEN Undefined ELSE Num(results.bpf.zscore)
        adScore == (IF hippoZ[1] < -200 THEN 3 ELSE IF hippoZ[1] < -150 THEN 2 ELSE 0)
                   + (IF Truthy(hoc) /\ hoc[1] < 750 THEN 2 ELSE 0)
                   + (IF Truthy(amygZ) /\ amygZ[1] < -150 THEN 1 ELSE 0)
        ad == IF hippoZ # Undefined /\ hippoZ[1] < -150 /\ adScore >= 3
              THEN << [pattern |-> "Alzheimer's Disease Pattern",
                       confidence |-> IF adScore >= 5 THEN "High" ELSE "Moderate"] >>
              ELSE << >>
        ftd == IF Truthy(caudateZ) /\ caudateZ[1] < -200
                  /\ (~Truthy(hippoZ) \/ hippoZ[1] > caudateZ[1] + 50)
               THEN << [pattern |-> "Frontotemporal Dementia Pattern",
                        confidence |-> "Low-Moderate"] >>
               ELSE << >>
        vascular == IF Truthy(wmZ) /\ wmZ[1] < -200
                    THEN << [pattern |-> "Vascular Dementia Pattern",
                             confidence |-> "Moderate"] >>
                    ELSE << >>
        mciBase == IF hoc[1] < 700 THEN "Moderate"
                   ELSE IF hoc[1] < 750 THEN "Low-Moderate" ELSE "Low"
        mciConfidence == mciBase
        mci == IF Truthy(hoc) /\ hoc[1] < 800 /\ (~Truthy(hippoZ) \/ hippoZ[1] >= -150)
               THEN << [pattern |-> "Early MCI / Subtle Medial Temporal Changes",
                        confidence |-> mciConfidence] >>
               ELSE << >>
        patterns == ad \o ftd \o vascular \o mci
    IN IF patterns # << >> THEN patterns
       ELSE IF Truthy(bpfZ) /\ bpfZ[1] >= -150 /\ (~Truthy(hippoZ) \/ hippoZ[1] >= -150)
               /\ (~Truthy(hoc) \/ hoc[1] >= 800)
       THEN << [pattern |-> "Normal Aging Pattern", confidence |-> "High"] >>
       ELSE << [pattern |-> "Normal Aging Pattern", confidence |-> "Moderate"] >>

detectClinicalPatterns(results) ==
    LET hippoZ == RegionField(results.regions, "Hippocampus", "effectiveZscore")
        amygZ == RegionField(results.regions, "Amygdala", "effectiveZscore")
        caudateZ == RegionField(results.regions, "Caudate", "effectiveZscore")
        wmZ == RegionField(results.regions, "Cerebral-White-Matter", "effectiveZscore")
        ilvZ == RegionField(results.regions, "Inferior-Lateral-Ventricle", "zscore")
        hoc == IF results.hoc = Null THEN Undefined ELSE results.hoc.value
        bpfZ == IF results.bpf = Null THEN Undefined ELSE Num(results.bpf.zscore)
        adScore == (IF hippoZ[1] < -200 THEN 3 ELSE IF hippoZ[1] < -150 THEN 2 ELSE 0)
                   + (IF Truthy(hoc) /\ hoc[1] < 750 THEN 2 ELSE 0)
                   + (IF Truthy(amygZ) /\ amygZ[1] < -150 THEN 1 ELSE 0)
        ad == IF hippoZ # Undefined /\ hippoZ[1] < -150 /\ adScore >= 3
              THEN << [pattern |-> "Alzheimer's Disease Pattern",
                       confidence |-> IF adScore >= 5 THEN "High" ELSE "Moderate"] >>
              ELSE << >>
        ftd == IF Truthy(caudateZ) /\ caudateZ[1] < -200
                  /\ (~Truthy(hippoZ) \/ hippoZ[1] > caudateZ[1] + 50)
               THEN << [pattern |-> "Frontotemporal Dementia Pattern",
                        confidence |-> "Low-Moderate"] >>
               ELSE << >>
        vascular == IF Truthy(wmZ) /\ wmZ[1] < -200
                    THEN << [pattern |-> "Vascular Dementia Pattern",
                             confidence |-> "Moderate"] >>
                    ELSE << >>
        mciBase == IF hoc[1] < 700 THEN "Moderate"
                   ELSE IF hoc[1] < 750 THEN "Low-Moderate" ELSE "Low"
        mciConfidence == IF Truthy(ilvZ) /\ ilvZ[1] > 50
                         THEN (IF mciBase = "Low" THEN "Low-Moderate" ELSE "Moderate")
                         ELSE mciBase
        mci == IF Truthy(hoc) /\ hoc[1] < 800 /\ (~Truthy(hippoZ) \/ hippoZ[1] >= -150)
               THEN << [pattern |-> "Early MCI / Subtle Medial Temporal Changes",
                        confidence |-> mciConfidence] >>
               ELSE << >>
        patterns == ad \o ftd \o vascular \o mci
    IN IF patterns # << >> THEN patterns
       ELSE IF Truthy(bpfZ) /\ bpfZ[1] >= -150 /\ (~Truthy(hippoZ) \/ hippoZ[1] >= -150)
               /\ (~Truthy(hoc) \/ hoc[1] >= 800)
       THEN << [pattern |-> "Normal Aging Pattern", confidence |-> "High"] >>
       ELSE << [pattern |-> "Normal Aging Pattern", confidence |-> "Moderate"] >>

\* STANDARDIZED_SCALES: the conversions and the age thresholds of the visual
\* rating scales. z-scores are in hundredths, ratios in hundredths, MTA scores
\* and MTA thresholds in halves of a point.
STANDARDIZED_SCALES ==
    [MTA |-> [labels |-> <<"Normal", "Minimal", "Mild", "Moderate", "Severe">>,
              ageThresholds |-> << <<65, 2>>, <<75, 3>>, <<85, 4>>, <<100, 5>> >>,
              qmtaToScore |-> << <<10, 0>>, <<20, 1>>, <<35, 2>>, <<55, 3>> >>,
              zscoreToScore |-> << <<-50, 0>>, <<-100, 1>>, <<-150, 2>>, <<-200, 3>> >>],
     GCA |-> [labels |-> <<"Normal", "Mild", "Moderate", "Severe">>,
              ageThresholds |-> << <<75, 1>>, <<100, 2>> >>,
              zscoreToScore |-> << <<-50, 0>>, <<-150, 1>>, <<-250, 2>> >>],
     Koedam |-> [labels |-> <<"Normal", "Mild", "Moderate", "Severe">>,
                 zscoreToScore |-> << <<-50, 0>>, <<-150, 1>>, <<-250, 2>> >>]]

\* for (const threshold of table) if (z >= threshold.minZ) { score; break }
\* with the last row of the table (minZ: -Infinity) scoring last
RECURSIVE ScoreOfZ(_, _, _)
ScoreOfZ(table, z, last) ==
    IF table = << >> THEN last
    ELSE IF z >= Head(table)[1] THEN Head(table)[2]
    ELSE ScoreOfZ(Tail(table), z, last)

\* for (const [maxAge, threshold] of entries) if (age < maxAge) { ...; break }
\* over the entries in ascending order, otherwise the initial value
RECURSIVE AgeThreshold(_, _, _)
AgeThreshold(table, age, initial) ==
    IF table = << >> THEN initial
    ELSE IF age < Head(table)[1] THEN Head(table)[2]
    ELSE AgeThreshold(Tail(table), age, initial)

\* The first row of qmtaToScore with ilvVol / hippoVol <= maxRatio, the last
\* row (maxRatio: Infinity) scoring 4
RECURSIVE ScoreOfRatio(_, _, _)
ScoreOfRatio(table, ilvVol, hippoVol) ==
    IF table = << >> THEN 4
    ELSE IF 100 * ilvVol <= Head(table)[1] * hippoVol THEN Head(table)[2]
    ELSE ScoreOfRatio(Tail(table), ilvVol, hippoVol)

\* score is in halves of a point: Math.round((a + b) / 2 * 2) / 2 = (a + b) / 2
calculateMTAScore(volumes, hippoZscore, age) ==
    LET hippoVol == VolumeOf(volumes, "Hippocampus")
        ilvVol == VolumeOf(volumes, "Inferior-Lateral-Ventricle")
        mtaFromRatio == IF hippoVol > 0
                        THEN ScoreOfRatio(STANDARDIZED_SCALES.MTA.qmtaToScore,
                                          ilvVol, hippoVol)
                        ELSE 0
        mtaFromZscore == IF hippoZscore # Null /\ hippoZscore # Undefined
                         THEN ScoreOfZ(STANDARDIZED_SCALES.MTA.zscoreToScore,
                                       hippoZscore[1], 4)
                         ELSE 0
        mtaScore == mtaFromRatio + mtaFromZscore
        ageThreshold == AgeThreshold(STANDARDIZED_SCALES.MTA.ageThresholds, age, 4)
        isAbnormal == mtaScore > ageThreshold
    IN [score |-> mtaScore,
        label |-> STANDARDIZED_SCALES.MTA.labels[(mtaScore \div 2) + 1],
        qmtaRatio |-> IF hippoVol > 0 THEN RoundDiv(100 * ilvVol, hippoVol) ELSE 0,
        mtaFromRatio |-> mtaFromRatio,
        mtaFromZscore |-> mtaFromZscore,
        ageThreshold |-> ageThreshold,
        isAbnormal |-> isAbnormal,
        interpretation |-> IF isAbnormal THEN "Abnormal for age" ELSE "Normal for age"]

calculateGCAScore(cortexZscore, age) ==
    LET gcaScore == IF cortexZscore # Null /\ cortexZscore # Undefined
                    THEN ScoreOfZ(STANDARDIZED_SCALES.GCA.zscoreToScore,
                                  cortexZscore[1], 3)
                    ELSE 0
        ageThreshold == AgeThreshold(STANDARDIZED_SCALES.GCA.ageThresholds, age, 2)
        isAbnormal == gcaScore > ageThreshold
    IN [score |-> gcaScore,
        label |-> STANDARDIZED_SCALES.GCA.labels[gcaScore + 1],
        ageThreshold |-> ageThreshold,
        isAbnormal |-> isAbnormal,
        interpretation |-> IF isAbnormal THEN "Abnormal for age" ELSE "Normal for age"]

calculateKoedamScore(cortexZscore) ==
    LET paScore == IF cortexZscore # Null /\ cortexZscore # Undefined
                   THEN ScoreOfZ(STANDARDIZED_SCALES.Koedam.zscoreToScore,
                                 cortexZscore[1], 3)
                   ELSE 0
    IN [score |-> paScore, label |-> STANDARDIZED_SCALES.Koedam.labels[paScore + 1]]

\* The least ratio lvVol / icv at which Math.round(0.42 * ratio ^ 0.30 * 100)
\* exceeds n, that is ((2n + 1) / 84) ^ (1 / 0.30), rounded up: in billionths
\* for n = 0 .. 51 (ratios below 2), in millionths for n = 52 .. 100
EvansCutsBelowTwo ==
    <<
      386, 15002, 82345, 252773, 584177, 1140368,
      1990125, 3206564, 4866673, 7050952, 9843134, 13329950,
      17600936, 22748265, 28866605, 36052996, 44406736, 54029282,
      65024167, 77496913, 91554966, 107307621, 124865970, 144342838,
      165852739, 189511819, 215437820, 243750031, 274569251, 308017756,
      344219258, 383298876, 425383104, 470599783, 519078072, 570948421,
      626342547, 685393411, 748235192, 815003270, 885834199, 960865694,
      1040236606, 1124086905, 1212557667, 1305791050, 1403930283, 1507119645,
      1615504458, 1729231064, 1848446815, 1973300059 >>

EvansCutsFromTwo ==
    <<
      2103941, 2240518, 2383183, 2532090, 2687389, 2849237,
      3017788, 3193197, 3375621, 3565218, 3762147, 3966567,
      4178638, 4398522, 4626379, 4862374, 5106668, 5359428,
      5620817, 5891003, 6170150, 6458429, 6756005, 7063049,
      7379731, 7706220, 8042688, 8389308, 8746252, 9113693,
      9491807, 9880767, 10280749, 10691930, 11114487, 11548597,
      11994439, 12452193, 12922037, 13404153, 13898721, 14405923,
      14925942, 15458960, 16005163, 16564733, 17137856, 17724717,
      18325504 >>

\* calculateEvansIndex counting the cuts the ratio has not reached
calculateEvansIndexFalling(volumes, icv) ==
    LET lvVol == VolumeOf(volumes, "Lateral-Ventricle")
        volumeRatio == Mx(lvVol, icv)
        ratioMillionths == MxScale(MxScale(volumeRatio, 1000), 1000)
        roundedEI == IF volumeRatio.i < 2
                     THEN Cardinality({n \in DOMAIN EvansCutsBelowTwo :
                              MxScale(ratioMillionths, 1000).i < EvansCutsBelowTwo[n]})
                     ELSE 0
    IN IF lvVol = 0 \/ icv = 0
       THEN [value |-> Null, interpretation |-> "Unable to calculate"]
       ELSE [value |-> Num(roundedEI),
             label |-> IF roundedEI <= 25 THEN "Normal"
                       ELSE IF roundedEI <= 30 THEN "Borderline" ELSE "Enlarged",
             volumeRatio |-> MxRound(MxScale(volumeRatio, 1000))]

\* roundedEI = Math.round(0.42 * (lvVol / icv) ^ 0.30 * 100) / 100, in
\* hundredths: the number of cuts the ratio has reached
calculateEvansIndex(volumes, icv) ==
    LET lvVol == VolumeOf(volumes, "Lateral-Ventricle")
        volumeRatio == Mx(lvVol, icv)
        ratioMillionths == MxScale(MxScale(volumeRatio, 1000), 1000)
        reached == IF volumeRatio.i < 2
                   THEN {n \in DOMAIN EvansCutsBelowTwo :
                            MxScale(ratioMillionths, 1000).i >= EvansCutsBelowTwo[n]}
                   ELSE DOMAIN EvansCutsBelowTwo \cup
                        {Len(EvansCutsBelowTwo) + n : n \in
                            {m \in DOMAIN EvansCutsFromTwo : ratioMillionths.i >= EvansCutsFromTwo[m]}}
        roundedEI == Cardinality(reached)
    IN IF lvVol = 0 \/ icv = 0
       THEN [value |-> Null, interpretation |-> "Unable to calculate"]
       ELSE [value |-> Num(roundedEI),
             label |-> IF roundedEI <= 25 THEN "Normal"
                       ELSE IF roundedEI <= 30 THEN "Borderline" ELSE "Enlarged",
             volumeRatio |-> MxRound(MxScale(volumeRatio, 1000))]

\* evans.value > 0.30 (false for the null value)
Ventriculomegaly(evans) == evans.value # Null /\ evans.value[1] > 30

\* hocValue !== null && hocValue < 0.80
HocBelowNormal(hocValue) == hocValue # Null /\ hocValue[1] < 800

\* The if / else-if chain of generateScoresSummary and the object it returns;
\* mta.score and its bounds are in halves of a point
ScoresSummary(mta, gca, evans, hocValue) ==
    LET hocLow == HocBelowNormal(hocValue)
        chosen ==
            IF mta.score >= 5 /\ gca.score <= 1
            THEN <<"Consistent with AD (medial temporal predominant)",
                   IF mta.score >= 6 THEN "High" ELSE "Moderate">>
            ELSE IF mta.score >= 4 /\ gca.score >= 2
            THEN <<"Diffuse atrophy pattern", "Moderate">>
            ELSE IF gca.score >= 2 /\ mta.score <= 2
            THEN <<"Cortical-predominant atrophy (consider FTD, posterior cortical atrophy)",
                   "Low-Moderate">>
            ELSE IF Ventriculomegaly(evans) /\ mta.score <= 3
            THEN <<"Ventricular enlargement out of proportion to atrophy - consider NPH",
                   "Moderate">>
            ELSE IF hocLow /\ mta.score < 4
            THEN (IF hocValue[1] < 700
                  THEN <<"Early medial temporal changes (HOC-based)", "Moderate">>
                  ELSE IF hocValue[1] < 750
                  THEN <<"Subtle medial temporal changes", "Low-Moderate">>
                  ELSE <<"Borderline medial temporal findings", "Low">>)
            ELSE <<"Normal aging", "High">>
    IN [overallPattern |-> chosen[1],
        confidence |-> chosen[2],
        mtaAbnormal |-> mta.isAbnormal,
        gcaAbnormal |-> gca.isAbnormal,
        ventriculomegaly |-> Ventriculomegaly(evans),
        hocAbnormal |-> hocLow]

generateScoresSummary(volumes, regionResults, age, icv, hocValue) ==
    Only({ScoresSummary(mta, gca, evans, hocValue) :
            mta \in {calculateMTAScore(volumes,
                                       RegionField(regionResults, "Hippocampus", "zscore"),
                                       age)},
            gca \in {calculateGCAScore(RegionField(regionResults, "Cerebral-Cortex", "zscore"),
                                       age)},
            evans \in {calculateEvansIndex(volumes, icv)}})

calculateStandardizedScores(volumes, regionResults, age, icv, hocValue) ==
    LET hippoZscore == RegionField(regionResults, "Hippocampus", "zscore")
        cortexZscore == RegionField(regionResults, "Cerebral-Cortex", "zscore")
    IN [mta |-> calculateMTAScore(volumes, hippoZscore, age),
        gca |-> calculateGCAScore(cortexZscore, age),
        koedam |-> calculateKoedamScore(cortexZscore),
        evansIndex |-> calculateEvansIndex(volumes, icv),
        summary |-> generateScoresSummary(volumes, regionResults, age, icv, hocValue)]

\* parseInt(patientAge.value) || 65: an empty, non-numeric or zero field reads 65
PatientAge(ageInput) == IF ageInput = 0 THEN 65 ELSE ageInput

\* The object analyzeAtrophy assigns to analysisResults before any computation.
\* (percentile, a normalCDF value, is not modelled.)
SkeletonReport(age, sex) ==
    [age |-> age, sex |-> sex, regions |-> << >>, totalBrainVolume |-> 0,
     atrophyRisk |-> "Unknown", findings |-> << >>, icv |-> 0,
     bpf |-> Null, hoc |-> Null, clinicalPatterns |-> << >>, icvNormalized |-> TRUE]

\* Math.round(zsTotal * 100), zsTotal = (totalVolume - expectedMean) / sd
TotalBrainZscore(totalVolume, age, sex) ==
    RoundScaledDiv(100,
                   MxSub(MxInt(totalVolume),
                         interpolateByAge(NORMATIVE_DATA_totalBrain.mean[sex], age)),
                   NORMATIVE_DATA_totalBrain.sd[sex])

\* analyzeAtrophy's STEP 4 to STEP 7 with a validation that strikes the
\* regions it warns about from the report
AssembleReportStrikingExtremes(volumes, age, sex, estimatedICV, totalVolume, bpf, hoc, regions) ==
    LET risk == AtrophyRisk(regions, hoc.value, Num(bpf.zscore))
        partial == [regions |-> regions, totalBrainVolume |-> totalVolume,
                    bpf |-> bpf, hoc |-> hoc]
        sorted == SortFindings(BpfFindings(bpf) \o HocFindings(hoc)
                               \o RegionFindings(regions))
        validation == validateAnalysisResults(partial)
        notes == [n \in DOMAIN validation.warnings |->
                    [severity |-> "info", type |-> "validation"]]
    IN [age |-> age, sex |-> sex,
        regions |-> SelectSeq(regions, LAMBDA r : ~(Abs(r.zscore) > 350)),
        totalBrainVolume |-> totalVolume,
        atrophyRisk |-> risk.atrophyRisk,
        riskDescription |-> risk.riskDescription,
        findings |-> sorted \o notes,
        icv |-> estimatedICV, bpf |-> bpf, hoc |-> hoc,
        clinicalPatterns |-> detectClinicalPatterns(partial),
        standardizedScores |->
          calculateStandardizedScores(volumes, regions, age, estimatedICV, hoc.value),
        icvNormalized |-> TRUE,
        totalBrainZscore |-> TotalBrainZscore(totalVolume, age, sex),
        validation |-> validation]

\* STEP 4 to STEP 7 of analyzeAtrophy: the verdict, the findings (region
\* findings were pushed in the loop, the HOC finding is unshifted, then the BPF
\* finding, then the list is sorted, then the validation notes are pushed)
AssembleReport(volumes, age, sex, estimatedICV, totalVolume, bpf, hoc, regions) ==
    LET risk == AtrophyRisk(regions, hoc.value, Num(bpf.zscore))
        partial == [regions |-> regions, totalBrainVolume |-> totalVolume,
                    bpf |-> bpf, hoc |-> hoc]
        sorted == SortFindings(BpfFindings(bpf) \o HocFindings(hoc)
                               \o RegionFindings(regions))
        validation == validateAnalysisResults(partial)
        notes == [n \in DOMAIN validation.warnings |->
                    [severity |-> "info", type |-> "validation"]]
    IN [age |-> age, sex |-> sex, regions |-> regions,
        totalBrainVolume |-> totalVolume,
        atrophyRisk |-> risk.atrophyRisk,
        riskDescription |-> risk.riskDescription,
        findings |-> sorted \o notes,
        icv |-> estimatedICV, bpf |-> bpf, hoc |-> hoc,
        clinicalPatterns |-> detectClinicalPatterns(partial),
        standardizedScores |->
          calculateStandardizedScores(volumes, regions, age, estimatedICV, hoc.value),
        icvNormalized |-> TRUE,
        totalBrainZscore |-> TotalBrainZscore(totalVolume, age, sex),
        validation |-> validation]

\* STEP 1 to STEP 3 of analyzeAtrophy with the ICV estimated: the raw total,
\* the biomarkers and the regions loop
AnalyzeWithICV(volumes, age, sex, estimatedICV) ==
    Only({AssembleReport(volumes, age, sex, estimatedICV, totalVolume, bpf, hoc, regions) :
            totalVolume \in {SumVolumes(volumes, FALSE)},
            bpf \in {calculateBPF(volumes, estimatedICV, age)},
            hoc \in {calculateHOC(volumes, age)},
            regions \in {AnalyzeRegions(volumes, estimatedICV, age, sex)}})

\* The report analyzeAtrophy leaves in analysisResults when it returns normally
\* (regionVolumes is an object)
analyzeAtrophy(volumes, ageInput, sex) ==
    Only({Only({AnalyzeWithICV(volumes, age, sex, estimatedICV) :
                  estimatedICV \in {estimateICV(volumes, age, sex)}}) :
            age \in {PatientAge(ageInput)}})

\* normData.sd[sex] throws a TypeError in the regions loop: the label resolved
\* to an inherited member, which has no sd
ThrowsInRegionsLoop(entry) ==
    /\ findNormativeData(entry.region) # Null
    /\ findNormativeData(entry.region)[1] \notin RegionKeySet

AnalysisThrows(volumes) == \E n \in DOMAIN volumes : ThrowsInRegionsLoop(volumes[n])

\* The report analyzeAtrophy leaves in analysisResults when its regions loop
\* throws: STEP 1 and STEP 2 are stored, and so are the regions and findings of
\* the entries ahead of the one that throws
ReportAtThrow(volumes, ageInput, sex) ==
    LET age == PatientAge(ageInput)
        estimatedICV == estimateICV(volumes, age, sex)
        first == CHOOSE n \in DOMAIN volumes :
                    /\ ThrowsInRegionsLoop(volumes[n])
                    /\ \A m \in 1..(n - 1) : ~ThrowsInRegionsLoop(volumes[m])
        regions == AnalyzeRegions(SubSeq(volumes, 1, first - 1), estimatedICV, age, sex)
    IN [SkeletonReport(age, sex) EXCEPT
          !.icv = estimatedICV,
          !.totalBrainVolume = SumVolumes(volumes, FALSE),
          !.bpf = calculateBPF(volumes, estimatedICV, age),
          !.hoc = calculateHOC(volumes, age),
          !.regions = regions,
          !.findings = RegionFindings(regions)]

-----------------------------------------------------------------------------
(* Inputs of the application model                                         *)

\* Invocations of loadFile and of runAnalysis that a behaviour may hold
MaxLoads == 2
MaxRuns == 2

Loads == 1..MaxLoads
Runs == 1..MaxRuns

\* A volume of mean - k * 0.6 sd (mean + k * 0.6 sd for a ventricle), against
\* the male reference at age 60
LevelVolume(key, k) ==
    LET normData == NORMATIVE_DATA_regions[key]
        step == (k * 6 * normData.sd.male) \div 10
    IN IF normData.invertZscore THEN normData.mean.male[3] + step
       ELSE Max(0, normData.mean.male[3] - step)

\* The labels of a scan's segmentation, in colormap order
ScanLabels ==
    <<"Cerebral-White-Matter", "Cerebral-Cortex", "Lateral-Ventricle",
      "Inferior-Lateral-Ventricle", "Thalamus", "Caudate", "Hippocampus", "Amygdala">>

\* The voxel counts of a scan whose regions all sit at level k
ScanCounts(k) ==
    [n \in DOMAIN ScanLabels |->
       [region |-> ScanLabels[n], volume |-> LevelVolume(ScanLabels[n], k)]]

\* The files a user may drop: an unremarkable scan and an atrophic one
Files ==
    {[name |-> "scanA.nii", counts |-> ScanCounts(0)],
     [name |-> "scanB.nii", counts |-> ScanCounts(4)]}

\* Patient fields of the application model (0: the age field is empty)
AppAges == {0, 72}

Scan(file) == [kind |-> "scan", file |-> file]

\* nv1.volumes[0].clone() carrying the label image
Overlay(volume) == [kind |-> "overlay", file |-> volume.file]

IdleLoad == [pc |-> "idle"]

IdleRun == [pc |-> "idle"]

NoExport == [outcome |-> "none"]

NoProbe == [op |-> "none", result |-> Null]

\* The state after the script is evaluated and init() has run
Init ==
    /\ nv1 = << >>
    /\ segmentationData = Null
    /\ regionVolumes = Null
    /\ uploadedFile = Null
    /\ analysisResults = Null
    /\ analyzeBtnDisabled = TRUE
    /\ analyzing = FALSE
    /\ cardsVisible = FALSE
    /\ patientAge \in AppAges
    /\ patientSex \in Sexes
    /\ loads = [i \in Loads |-> IdleLoad]
    /\ runs = [r \in Runs |-> IdleRun]
    /\ exported = NoExport
    /\ probe = NoProbe

-----------------------------------------------------------------------------
(* loadFile: one action per suspension point                               *)

patient == <<patientAge, patientSex>>

\* loadFile once the viewer holds no volume: the previous data are cleared,
\* the file is kept, the cards are hidden and nv1.loadFromFile(file) is started
ClearPreviousData(i, file) ==
    /\ segmentationData' = Null
    /\ regionVolumes' = Null
    /\ analysisResults' = Null
    /\ uploadedFile' = file
    /\ cardsVisible' = FALSE
    /\ loads' = [loads EXCEPT ![i] = [pc |-> "loadFromFile", file |-> file]]

\* A file is dropped or chosen: loadFile(file) runs up to its first await
LoadFile(i, file) ==
    /\ loads[i].pc = "idle"
    /\ \A j \in 1..(i - 1) : loads[j].pc # "idle"
    /\ IF nv1 = << >>
       THEN ClearPreviousData(i, file)
       ELSE /\ loads' = [loads EXCEPT ![i] = [pc |-> "removeVolume", file |-> file]]
            /\ UNCHANGED <<segmentationData, regionVolumes, analysisResults,
                           uploadedFile, cardsVisible>>
    /\ UNCHANGED <<nv1, analyzeBtnDisabled, analyzing, patient, runs, exported, probe>>

\* await nv1.removeVolume(nv1.volumes[0]) resumes; the loop goes on until the
\* viewer is empty and then falls into the clearing block
RemoveVolume(i) ==
    /\ loads[i].pc = "removeVolume"
    /\ nv1' = IF nv1 = << >> THEN nv1 ELSE Tail(nv1)
    /\ IF nv1' = << >>
       THEN ClearPreviousData(i, loads[i].file)
       ELSE UNCHANGED <<segmentationData, regionVolumes, analysisResults,
                        uploadedFile, cardsVisible, loads>>
    /\ UNCHANGED <<analyzeBtnDisabled, analyzing, patient, runs, exported, probe>>

\* await nv1.loadFromFile(file) resumes: the scan is in the viewer and
\* ensureConformed() is started, or the load threw and loadFile alerts
LoadFromFile(i) ==
    /\ loads[i].pc = "loadFromFile"
    /\ \/ /\ nv1' = Append(nv1, Scan(loads[i].file))
          /\ loads' = [loads EXCEPT ![i].pc = "ensureConformed"]
       \/ /\ loads' = [loads EXCEPT ![i].pc = "failed"]
          /\ UNCHANGED nv1
    /\ UNCHANGED <<segmentationData, regionVolumes, uploadedFile, analysisResults,
                   analyzeBtnDisabled, analyzing, cardsVisible, patient, runs,
                   exported, probe>>

\* await ensureConformed() resumes in loadFile: the analyze button is enabled
LoadConformed(i) ==
    /\ loads[i].pc = "ensureConformed"
    /\ analyzeBtnDisabled' = FALSE
    /\ loads' = [loads EXCEPT ![i].pc = "ready"]
    /\ UNCHANGED <<nv1, segmentationData, regionVolumes, uploadedFile, analysisResults,
                   analyzing, cardsVisible, patient, runs, exported, probe>>

-----------------------------------------------------------------------------
(* runAnalysis: one action per suspension point                            *)

\* The catch and finally blocks of runAnalysis: the error is alerted, the
\* button is enabled again and "analyzing" is removed
Failed(r) ==
    /\ analyzeBtnDisabled' = FALSE
    /\ analyzing' = FALSE
    /\ runs' = [runs EXCEPT ![r] = [pc |-> "done", outcome |-> "Analysis failed"]]

\* The end of the try block and the finally block of runAnalysis
Completed(r) ==
    /\ analyzeBtnDisabled' = FALSE
    /\ analyzing' = FALSE
    /\ runs' = [runs EXCEPT ![r] = [pc |-> "done", outcome |-> "Analysis complete"]]

\* runInference(opts, model, nv1.volumes[0].hdr, nv1.volumes[0].img, ...): the
\* local inference is started on the scan in the viewer; with no volume the
\* read of nv1.volumes[0].hdr throws
StartLocalInference(r) ==
    IF nv1 = << >> THEN Failed(r)
    ELSE /\ runs' = [runs EXCEPT ![r] = [pc |-> "runInference", input |-> nv1[1]]]
         /\ UNCHANGED <<analyzeBtnDisabled, analyzing>>

\* The analyze button is clicked: runAnalysis() runs into runSegmentation(),
\* whose ensureConformed() reads nv1.volumes[0]
RunAnalysis(r) ==
    /\ ~analyzeBtnDisabled
    /\ runs[r].pc = "idle"
    /\ \A q \in 1..(r - 1) : runs[q].pc # "idle"
    /\ IF nv1 = << >>
       THEN Failed(r)
       ELSE /\ analyzeBtnDisabled' = TRUE
            /\ analyzing' = TRUE
            /\ runs' = [runs EXCEPT ![r] = [pc |-> "ensureConformed"]]
    /\ UNCHANGED <<nv1, segmentationData, regionVolumes, uploadedFile, analysisResults,
                   cardsVisible, patient, loads, exported, probe>>

\* await ensureConformed() resumes in runSegmentation: USE_SERVER is true, so
\* runServerInference posts uploadedFile, or throws without one and the local
\* inference takes over
RunConformed(r) ==
    /\ runs[r].pc = "ensureConformed"
    /\ IF uploadedFile = Null
       THEN StartLocalInference(r)
       ELSE /\ runs' = [runs EXCEPT ![r] = [pc |-> "fetch", input |-> uploadedFile]]
            /\ UNCHANGED <<analyzeBtnDisabled, analyzing>>
    /\ UNCHANGED <<nv1, segmentationData, regionVolumes, uploadedFile, analysisResults,
                   cardsVisible, patient, loads, exported, probe>>

\* The server answers: its segmentation is stored and displaySegmentation is
\* started, or the request failed and the local inference takes over
ServerInference(r) ==
    /\ runs[r].pc = "fetch"
    /\ \/ /\ segmentationData' = [counts |-> runs[r].input.counts]
          /\ runs' = [runs EXCEPT ![r] = [pc |-> "displaySegmentation", by |-> "server"]]
          /\ UNCHANGED <<analyzeBtnDisabled, analyzing>>
       \/ /\ StartLocalInference(r)
          /\ UNCHANGED segmentationData
    /\ UNCHANGED <<nv1, regionVolumes, uploadedFile, analysisResults,
                   cardsVisible, patient, loads, exported, probe>>

\* The local inference calls back with its segmentation
LocalInference(r) ==
    /\ runs[r].pc = "runInference"
    /\ segmentationData' = [counts |-> runs[r].input.file.counts]
    /\ runs' = [runs EXCEPT ![r] = [pc |-> "displaySegmentation", by |-> "local"]]
    /\ UNCHANGED <<nv1, regionVolumes, uploadedFile, analysisResults, analyzeBtnDisabled,
                   analyzing, cardsVisible, patient, loads, exported, probe>>

\* analyzeAtrophy() pushing its findings onto those of the report at hand
\* instead of onto a new report's
AnalyzeAtrophyOntoPrevious(r, volumes) ==
    IF volumes = Null
    THEN /\ analysisResults' = SkeletonReport(PatientAge(patientAge), patientSex)
         /\ Failed(r)
         /\ UNCHANGED cardsVisible
    ELSE IF AnalysisThrows(volumes.entries)
    THEN /\ analysisResults' = ReportAtThrow(volumes.entries, patientAge, patientSex)
         /\ Failed(r)
         /\ UNCHANGED cardsVisible
    ELSE /\ analysisResults' =
              [analyzeAtrophy(volumes.entries, patientAge, patientSex)
                 EXCEPT !.findings = (IF analysisResults = Null THEN << >>
                                      ELSE analysisResults.findings) \o @]
         /\ cardsVisible' = TRUE
         /\ Completed(r)

\* analyzeAtrophy() as runAnalysis awaits it, then displayResults() and the
\* finally block.  The report object is assigned first; estimateICV then
\* throws on a null regionVolumes and the object stays as assigned; a throw in
\* the regions loop leaves what was stored until then.
AnalyzeAtrophy(r, volumes) ==
    IF volumes = Null
    THEN /\ analysisResults' = SkeletonReport(PatientAge(patientAge), patientSex)
         /\ Failed(r)
         /\ UNCHANGED cardsVisible
    ELSE IF AnalysisThrows(volumes.entries)
    THEN /\ analysisResults' = ReportAtThrow(volumes.entries, patientAge, patientSex)
         /\ Failed(r)
         /\ UNCHANGED cardsVisible
    ELSE /\ analysisResults' = analyzeAtrophy(volumes.entries, patientAge, patientSex)
         /\ cardsVisible' = TRUE
         /\ Completed(r)

\* displaySegmentation throws: after the server's answer the throw lands in
\* the catch of runSegmentation, which goes on to the local inference; in the
\* callback of the local inference it rejects the promise of runSegmentation
DisplayThrows(r) ==
    /\ IF runs[r].by = "server" THEN StartLocalInference(r) ELSE Failed(r)
    /\ UNCHANGED <<nv1, analysisResults, cardsVisible>>

\* displaySegmentation resumes with the overlay added; calculateVolumes()
\* returns at once without segmentationData, and else fetches the colormap.
\* Without a volume in the viewer nv1.volumes[0].clone() throws, and the
\* fetch of the colormap of the overlay may fail as any request may.
DisplaySegmentation(r) ==
    /\ runs[r].pc = "displaySegmentation"
    /\ IF nv1 = << >>
       THEN DisplayThrows(r)
       ELSE \/ /\ nv1' = <<nv1[1], Overlay(nv1[1])>>
               /\ IF segmentationData = Null
                  THEN AnalyzeAtrophy(r, regionVolumes)
                  ELSE /\ runs' = [runs EXCEPT ![r] = [pc |-> "fetchColormap"]]
                       /\ UNCHANGED <<analysisResults, analyzeBtnDisabled, analyzing,
                                      cardsVisible>>
            \/ DisplayThrows(r)
    /\ UNCHANGED <<segmentationData, regionVolumes, uploadedFile, patient, loads,
                   exported, probe>>

\* The colormap arrives in calculateVolumes: the voxels of segmentationData are
\* counted into regionVolumes (a null segmentationData throws), and runAnalysis
\* goes on to analyzeAtrophy()
CalculateVolumes(r) ==
    /\ runs[r].pc = "fetchColormap"
    /\ IF segmentationData = Null
       THEN /\ Failed(r)
            /\ UNCHANGED <<regionVolumes, analysisResults, cardsVisible>>
       ELSE /\ regionVolumes' = [entries |-> segmentationData.counts]
            /\ AnalyzeAtrophy(r, regionVolumes')
    /\ UNCHANGED <<nv1, segmentationData, uploadedFile, patient, loads, exported, probe>>

\* x.toFixed(n) with x undefined or null throws a TypeError
ToFixedThrows(x) == x \in {Null, Undefined}

\* s.koedam.posteriorZscore: calculateKoedamScore returns score, maxScore,
\* label, description, note and reference, and no field of this name
KoedamPosteriorZscore(koedam) ==
    IF "posteriorZscore" \in DOMAIN koedam THEN Num(koedam.posteriorZscore) ELSE Undefined

\* generateTextReport() throws.  The z-scores of r.bpf, of r.hoc (read when
\* its value is not null), of r.hippocampusAnalysis and of the stored regions
\* are numbers wherever the objects are set; the section of the standardized
\* scales, written when r.standardizedScores is set, calls toFixed on
\* s.koedam.posteriorZscore and on s.evansIndex.value.
generateTextReportThrows(r) ==
    /\ "standardizedScores" \in DOMAIN r
    /\ \/ ToFixedThrows(KoedamPosteriorZscore(r.standardizedScores.koedam))
       \/ ToFixedThrows(r.standardizedScores.evansIndex.value)

\* The export button is clicked.  exportReport() tests analysisResults itself
\* and nothing else; the page that places the button is not part of the
\* sources, so the click is taken to be deliverable in every state.  A throw
\* of generateTextReport() leaves exportReport before the download.
ExportReport ==
    /\ exported' = IF analysisResults = Null
                   THEN [outcome |-> "No analysis to export"]
                   ELSE IF generateTextReportThrows(analysisResults)
                   THEN [outcome |-> "TypeError"]
                   ELSE [outcome |-> "atrophy_report.txt", report |-> analysisResults]
    /\ exported' # exported
    /\ UNCHANGED <<nv1, segmentationData, regionVolumes, uploadedFile, analysisResults,
                   analyzeBtnDisabled, analyzing, cardsVisible, patient, loads, runs,
                   probe>>

Next ==
    \/ \E i \in Loads, file \in Files : LoadFile(i, file)
    \/ \E i \in Loads : RemoveVolume(i)
    \/ \E i \in Loads : LoadFromFile(i)
    \/ \E i \in Loads : LoadConformed(i)
    \/ \E r \in Runs : RunAnalysis(r)
    \/ \E r \in Runs : RunConformed(r)
    \/ \E r \in Runs : ServerInference(r)
    \/ \E r \in Runs : LocalInference(r)
    \/ \E r \in Runs : DisplaySegmentation(r)
    \/ \E r \in Runs : CalculateVolumes(r)
    \/ ExportReport

Spec == Init /\ [][Next]_vars

-----------------------------------------------------------------------------
(* The engine on its own: the analysis applied to a range of observations,  *)
(* and the pure functions applied to ranges of arguments                    *)

\* Deepest deviation level of an observation (MaxLevel * 0.6 sd)
MaxLevel == 5
\* z-scores probed, in hundredths: -MaxZ .. MaxZ
MaxZ == 300
\* Ages probed: 0 .. MaxAge
MaxAge == 100
\* ICVs probed: the reference mean plus -MaxSd .. MaxSd reference sds
MaxSd == 3

\* The observation with one region's volume replaced
WithVolume(volumes, label, volume) ==
    [n \in DOMAIN volumes |->
       IF volumes[n].region = label THEN [region |-> label, volume |-> volume]
       ELSE volumes[n]]

\* The observation without one region
Without(volumes, label) == SelectSeq(volumes, LAMBDA e : e.region # label)

Entry(label, volume) == [region |-> label, volume |-> volume]

ScanLabelSet == {ScanLabels[n] : n \in DOMAIN ScanLabels}

\* Every reference region at its expected mean for a male of 70 (the means
\* are whole numbers), the hippocampus at 6000
ScenarioVolumes ==
    [n \in DOMAIN RegionKeys |->
       Entry(RegionKeys[n],
             IF RegionKeys[n] = "Hippocampus" THEN 6000
             ELSE MxRound(interpolateByAge(NORMATIVE_DATA_regions[RegionKeys[n]].mean.male,
                                           70)))]

\* Observations at the extremes of estimateICV: parenchyma alone far above
\* and far below the reference band, with and without ventricles
ExtremeObservations ==
    {<<Entry("Cerebral-Cortex", c), Entry("Lateral-Ventricle", l)>> :
       c \in {1, 900000, 1500000, 1700000, 5000000}, l \in {0, 20000, 600000}}

\* Observations the analysis is applied to
Observations ==
    {ScenarioVolumes} \cup ExtremeObservations \cup
    {ScanCounts(k) : k \in 0..MaxLevel}
    \cup {WithVolume(ScanCounts(0), label, LevelVolume(label, k)) :
            label \in ScanLabelSet, k \in 1..MaxLevel}
    \cup {WithVolume(WithVolume(ScanCounts(0), "Amygdala", LevelVolume("Amygdala", k)),
                     "Caudate", LevelVolume("Caudate", k)) : k \in 1..MaxLevel}
    \cup {WithVolume(WithVolume(ScanCounts(1), "Hippocampus", h),
                     "Inferior-Lateral-Ventricle", l) :
            h \in {0, 3998, 6000, 7000}, l \in {1002, 2000, 2500, 3000}}
    \cup {WithVolume(WithVolume(WithVolume(ScanCounts(0), "Hippocampus", h),
                                "Amygdala", 700),
                     "Inferior-Lateral-Ventricle", l) :
            h \in {3900, 4480}, l \in {900, 1500}}
    \cup {WithVolume(WithVolume(ScanCounts(0), "Hippocampus", h), "Amygdala", a) :
            h \in {4400, 4550}, a \in {1600, 1700}}
    \cup {Without(ScanCounts(k), "Hippocampus") : k \in 0..MaxLevel}
    \cup {<< >>,
          <<Entry("Hippocampus", 5400), Entry("Inferior-Lateral-Ventricle", 10800000)>>,
          <<Entry("Left-Hippocampus", 3600), Entry("Right Hippocampus", 5600),
            Entry("Unknown", 1200), Entry("brain_stem", 21000),
            Entry("Cerebral-Cortex", 430000)>>,
          <<Entry("Lateral-Ventricle", 90000), Entry("constructor", 900),
            Entry("Hippocampus", 7000)>>}

EngineAges == {0, 45, 70, 72, 80, MaxAge}

\* Arguments of interpretZScore
InterpretZScoreArgs ==
    {[op |-> "interpretZScore", zscore |-> z, invertZscore |-> b, result |-> Null] :
       z \in (-MaxZ)..MaxZ, b \in BOOLEAN}

\* Arguments of interpolateByAge: rows of the reference tables
InterpolateByAgeArgs ==
    {[op |-> "interpolateByAge", ageValues |-> row, age |-> a, result |-> Null] :
       row \in {NORMATIVE_DATA_regions[k].mean[x] :
                  k \in {"Hippocampus", "Lateral-Ventricle", "Cerebral-Cortex"},
                  x \in Sexes}
               \cup {NORMATIVE_DATA_totalBrain.mean[x] : x \in Sexes},
       a \in 0..MaxAge}

\* Arguments of applyICVNormalization
ApplyICVNormalizationArgs ==
    {[op |-> "applyICVNormalization", volume |-> v, region |-> k,
      icv |-> ICV_REFERENCE.mean[x] + d * ICV_REFERENCE.sd[x], sex |-> x,
      result |-> Null] :
       v \in {0, 1, 100, 1000, 5000, 300000},
       k \in RegionKeySet \cup {"Unknown", "Left-Hippocampus"},
       d \in (-MaxSd)..MaxSd, x \in Sexes}

\* Arguments of calculateHOC (a volume of -1: the region is absent)
CalculateHOCArgs ==
    {[op |-> "calculateHOC",
      volumes |-> SelectSeq(<<Entry("Hippocampus", h),
                              Entry("Inferior-Lateral-Ventricle", l)>>,
                            LAMBDA e : e.volume >= 0),
      age |-> a, result |-> Null] :
       h \in {-1, 0, 1, 2999, 3000, 3499, 3500, 3998, 3999, 4000, 6000},
       l \in {-1, 0, 1000, 1001, 1002, 2000, 2500},
       a \in {45, 65, 72, 85}}

\* Arguments of calculateBPF: parenchymal volumes one voxel to either side of
\* those that put the z-score on a threshold (on a threshold itself the binary
\* rounding of the quotient decides the comparison)
CalculateBPFArgs ==
    {[op |-> "calculateBPF", volumes |-> <<Entry("Cerebral-Cortex", v)>>,
      icv |-> 1500000, age |-> a, result |-> Null] :
       v \in {1140000, 1065001, 1064999, 1050000, 1027501, 1027499, 1000000,
              990001, 989999, 975000, 952501, 952499, 900000},
       a \in {25, 65, 72, 95}}

\* Arguments of estimateICV
EstimateICVArgs ==
    {[op |-> "estimateICV", volumes |-> v, age |-> a, sex |-> x, result |-> Null] :
       v \in Observations, a \in EngineAges, x \in Sexes}

\* Arguments of calculateMTAScore: ILV / hippocampus ratios in every row of
\* qmtaToScore, hippocampal z-scores in every row of zscoreToScore (or none),
\* ages to either side of every age threshold
CalculateMTAScoreArgs ==
    {[op |-> "calculateMTAScore",
      volumes |-> <<Entry("Hippocampus", h), Entry("Inferior-Lateral-Ventricle", l)>>,
      hippoZscore |-> z, age |-> a, result |-> Null] :
       h \in {0, 1000}, l \in {0, 50, 150, 300, 500, 600},
       z \in {Undefined, Num(-30), Num(-70), Num(-120), Num(-170), Num(-250)},
       a \in {64, 65, 74, 75, 84, 85, 99, 100, 110}}

\* Arguments of calculateEvansIndex: a lateral-ventricle volume and a larger
\* one, an ICV and a larger one
CalculateEvansIndexArgs ==
    {[op |-> "calculateEvansIndex", volume |-> v, larger |-> v + d,
      icv |-> i, largerIcv |-> i + c, result |-> Null] :
       v \in {1, 1000, 20000, 36500, 100000, 300000}, d \in {1, 500, 50000},
       i \in {1160000, 1500000, 1940000}, c \in {1, 1000, 200000}}

\* Labels findNormativeData is applied to: the table's keys, spellings of
\* them that each step resolves, labels of no region, inherited members, and
\* the keys of the alias table
ProbedLabels ==
    RegionKeySet \cup
    {"Inferior Lateral Ventricle", "Cerebral  Cortex", "Left-Hippocampus",
     "Right Hippocampus", "HIPPOCAMPUS", "brain_stem", "Ventricle", "a", "",
     "Nucleus Accumbens", "third_ventricle", "Inf-Lat-Ventricle",
     "Ventral Diencephalon", "Unknown", "CSF", "constructor", "Constructor",
     "toString", "to String", "inferior lateral ventricle"}
    \cup DOMAIN Aliases

FindNormativeDataArgs ==
    {[op |-> "findNormativeData", regionName |-> label, result |-> Null] :
       label \in ProbedLabels}

\* Arguments of the z-score of one region at two raw volumes
RegionResultArgs ==
    {[op |-> "RegionResult", region |-> k, volume |-> v, larger |-> v + d,
      icv |-> ICV_REFERENCE.mean[x] + c * ICV_REFERENCE.sd[x], age |-> a, sex |-> x,
      result |-> Null] :
       k \in {"Hippocampus", "Lateral-Ventricle", "Cerebral-Cortex", "3rd-Ventricle"},
       v \in {0, 100, 1500, 6000, 20000, 400000}, d \in {1, 50, 2000},
       c \in {-2, 0, 2}, a \in {45, 72}, x \in Sexes}

\* An analysis about to count its segmentation (calculateVolumes has fetched
\* the colormap), or a pure function about to be applied
EngineInit ==
    /\ analysisResults = Null
    /\ regionVolumes = Null
    /\ cardsVisible = FALSE
    /\ exported = NoExport
    /\ \/ /\ probe = NoProbe
          /\ \E volumes \in Observations :
                LET file == [name |-> "scan.nii", counts |-> volumes]
                IN /\ nv1 = <<Scan(file), Overlay(Scan(file))>>
                   /\ uploadedFile = file
                   /\ segmentationData = [counts |-> volumes]
                   /\ loads = [i \in Loads |->
                                IF i = 1 THEN [pc |-> "ready", file |-> file]
                                ELSE IdleLoad]
          /\ runs = [r \in Runs |-> IF r = 1 THEN [pc |-> "fetchColormap"] ELSE IdleRun]
          /\ analyzeBtnDisabled = TRUE
          /\ analyzing = TRUE
          /\ patientAge \in EngineAges
          /\ patientSex \in Sexes
       \/ /\ probe \in InterpretZScoreArgs \cup InterpolateByAgeArgs
                        \cup ApplyICVNormalizationArgs \cup CalculateHOCArgs
                        \cup CalculateBPFArgs \cup RegionResultArgs
                        \cup EstimateICVArgs \cup CalculateMTAScoreArgs
                         \cup CalculateEvansIndexArgs \cup FindNormativeDataArgs
          /\ nv1 = << >>
          /\ uploadedFile = Null
          /\ segmentationData = Null
          /\ loads = [i \in Loads |-> IdleLoad]
          /\ runs = [r \in Runs |-> IdleRun]
          /\ analyzeBtnDisabled = TRUE
          /\ analyzing = FALSE
          /\ patientAge = 0
          /\ patientSex = "male"

app == <<nv1, segmentationData, regionVolumes, uploadedFile, analysisResults,
         analyzeBtnDisabled, analyzing, cardsVisible, patient, loads, runs, exported>>

Pending(op) == probe.op = op /\ probe.result = Null

Return(value) ==
    /\ probe' = [probe EXCEPT !.result = <<value>>]
    /\ UNCHANGED app

ApplyInterpretZScore ==
    /\ Pending("interpretZScore")
    /\ Return(interpretZScore(probe.zscore, probe.invertZscore))

ApplyInterpolateByAge ==
    /\ Pending("interpolateByAge")
    /\ Return(interpolateByAge(probe.ageValues, probe.age))

ApplyICVNormalization ==
    /\ Pending("applyICVNormalization")
    /\ Return(applyICVNormalization(probe.volume, probe.region, probe.icv, probe.sex))

ApplyCalculateHOC ==
    /\ Pending("calculateHOC")
    /\ Return(calculateHOC(probe.volumes, probe.age))

ApplyCalculateBPF ==
    /\ Pending("calculateBPF")
    /\ Return(calculateBPF(probe.volumes, probe.icv, probe.age))

ApplyEstimateICV ==
    /\ Pending("estimateICV")
    /\ Return(estimateICV(probe.volumes, probe.age, probe.sex))

ApplyCalculateMTAScore ==
    /\ Pending("calculateMTAScore")
    /\ Return(calculateMTAScore(probe.volumes, probe.hippoZscore, probe.age))

\* calculateEvansIndex at the volume and the ICV, at the larger volume, and
\* at the larger ICV
ApplyCalculateEvansIndex ==
    /\ Pending("calculateEvansIndex")
    /\ Return([at |-> calculateEvansIndex(<<Entry("Lateral-Ventricle", probe.volume)>>, probe.icv),
               atLargerVolume |->
                   calculateEvansIndex(<<Entry("Lateral-Ventricle", probe.larger)>>, probe.icv),
               atLargerIcv |->
                   calculateEvansIndex(<<Entry("Lateral-Ventricle", probe.volume)>>, probe.largerIcv)])

ApplyFindNormativeData ==
    /\ Pending("findNormativeData")
    /\ Return(findNormativeData(probe.regionName))

\* The region entry analyzeAtrophy stores, at the volume and at the larger one
ApplyRegionResult ==
    /\ Pending("RegionResult")
    /\ Return([at |-> RegionResult(Entry(probe.region, probe.volume),
                                   probe.icv, probe.age, probe.sex),
               atLarger |-> RegionResult(Entry(probe.region, probe.larger),
                                         probe.icv, probe.age, probe.sex)])

EngineNext ==
    \/ \E r \in Runs : CalculateVolumes(r)
    \/ ApplyInterpretZScore
    \/ ApplyInterpolateByAge
    \/ ApplyICVNormalization
    \/ ApplyCalculateHOC
    \/ ApplyCalculateBPF
    \/ ApplyRegionResult
    \/ ApplyEstimateICV
    \/ ApplyCalculateMTAScore
    \/ ApplyCalculateEvansIndex
    \/ ApplyFindNormativeData

EngineSpec == EngineInit /\ [][EngineNext]_vars

-----------------------------------------------------------------------------
(* Properties of the assembled report                                      *)

\* A report analyzeAtrophy ran to its end on (the object it creates first has
\* no validation summary and no risk description yet)
Assembled(report) ==
    /\ report # Null
    /\ {"validation", "riskDescription", "totalBrainZscore", "standardizedScores"}
         \subseteq DOMAIN report
    /\ report.atrophyRisk # "Unknown"
    /\ report.bpf # Null
    /\ report.hoc # Null

\* Regions of a report whose stored effective z-score lies in [lo, hi), in hundredths
RegionsWithin(report, lo, hi) ==
    Cardinality({n \in DOMAIN report.regions :
                   /\ report.regions[n].effectiveZscore >= lo
                   /\ report.regions[n].effectiveZscore < hi})

\* The verdict the documented cascade gives the figures a report shows: its
\* regions' effective z-scores, its hippocampal effective z-score, its HOC value
\* (thousandths) and its BPF z-score (hundredths)
CascadeVerdict(report) ==
    LET critical == RegionsWithin(report, -100000000, -250)
        moderate == RegionsWithin(report, -250, -200)
        mild == RegionsWithin(report, -200, -150)
        hippo == HippocampusZscore(report.regions)
        HippoBelow(t) == hippo # Null /\ hippo[1] < t
        HocBelow(t) == report.hoc.value # Null /\ report.hoc.value[1] < t
    IN IF critical >= 2 \/ HippoBelow(-250) \/ HocBelow(600) THEN "High"
       ELSE IF moderate >= 1 \/ critical >= 1 \/ HippoBelow(-200) \/ HocBelow(700)
       THEN "Moderate"
       ELSE IF mild >= 2 \/ HippoBelow(-150) \/ report.bpf.zscore < -150
               \/ HocBelow(750)
       THEN "Mild"
       ELSE IF mild >= 1 \/ HippoBelow(-100) \/ HocBelow(800) THEN "Low-Normal"
       ELSE "Normal"

\* C1: the verdict of every assembled report is the first matching rule of the
\* cascade High, Moderate, Mild, Low-Normal, Normal, applied to the region
\* counts, the hippocampal effective z-score, the HOC value and the BPF z-score
\* the report shows.  Violated: a reported HOC of 0.000 is below 0.60, but
\* "hocValue && hocValue < 0.60" is falsy at 0 and the High rule does not fire.
C1_VerdictIsFirstMatchingRule ==
    Assembled(analysisResults) =>
        analysisResults.atrophyRisk = CascadeVerdict(analysisResults)

\* C1: a report whose HOC is reported as 0.000 (severe, a danger finding) and
\* whose verdict is only Moderate
C1_ZeroHocNotHigh ==
    /\ Assembled(analysisResults)
    /\ analysisResults.hoc.value = Num(0)
    /\ analysisResults.hoc.interpretation = "Severe"
    /\ analysisResults.atrophyRisk = "Moderate"
    /\ CascadeVerdict(analysisResults) = "High"

\* The rank of a severity in the order danger, warning, info
SeverityRank(severity) ==
    CASE severity = "danger" -> 0
      [] severity = "warning" -> 1
      [] OTHER -> 2

\* The findings the sort of analyzeAtrophy arranged: all but the validation
\* notes, which are pushed after it
SortedFindings(report) ==
    SelectSeq(report.findings, LAMBDA f : f.type # "validation")

\* C2: in the findings of every assembled report no danger finding comes after
\* a warning or info finding, and no warning after an info finding.  Violated:
\* the comparator reads "severityOrder[a.severity] || 3", and the rank 0 of
\* danger is falsy, so danger findings sort after warning and info findings.
C2_FindingsOrderedBySeverity ==
    Assembled(analysisResults) =>
        \A m, n \in DOMAIN analysisResults.findings :
            m < n => SeverityRank(analysisResults.findings[m].severity)
                       <= SeverityRank(analysisResults.findings[n].severity)

\* C2: a report whose sorted findings show a danger finding after a warning
C2_DangerAfterWarning ==
    /\ Assembled(analysisResults)
    /\ \E m, n \in DOMAIN SortedFindings(analysisResults) :
          /\ m < n
          /\ SortedFindings(analysisResults)[m].severity = "warning"
          /\ SortedFindings(analysisResults)[n].severity = "danger"

\* C3: under every interleaving of loadFile, runAnalysis and exportReport the
\* shared analysisResults is null or a fully assembled report, an analysis
\* without a volume observation failing before any report object exists.
\* Violated: analyzeAtrophy assigns the report object with its placeholder
\* fields first and estimateICV(regionVolumes) throws afterwards, so a loadFile
\* that clears the data while an analysis awaits leaves the placeholder behind.
C3_ReportNullOrAssembled ==
    analysisResults = Null \/ Assembled(analysisResults)

\* C3: an analysis has failed on a cleared volume observation and the
\* placeholder report ("Unknown" verdict, no regions, no BPF, no HOC) is what
\* analysisResults holds
C3_PlaceholderLeftBehind ==
    /\ regionVolumes = Null
    /\ \E r \in Runs : runs[r].pc = "done" /\ runs[r].outcome = "Analysis failed"
    /\ analysisResults = SkeletonReport(PatientAge(patientAge), patientSex)

-----------------------------------------------------------------------------
(* Properties of the engine's functions                                    *)

\* The pure function op has been applied to the arguments in probe
Applied(op) == probe.op = op /\ probe.result # Null

\* The bucket of an effective z-score (hundredths): boundaries in the better one
Bucket(effectiveZ) ==
    IF effectiveZ >= -100 THEN "normal"
    ELSE IF effectiveZ >= -150 THEN "low-normal"
    ELSE IF effectiveZ >= -200 THEN "mild"
    ELSE IF effectiveZ >= -250 THEN "moderate"
    ELSE "severe"

\* C4: for every z-score and inversion flag interpretZScore returns the bucket
\* of effectiveZ = (invert ? -z : z), with -1.0, -1.5, -2.0 and -2.5 in the
\* better bucket, and the interpretation stored for each region of a report is
\* the bucket of that region's stored effectiveZscore.
C4_InterpretationIsBucketOfEffectiveZ ==
    /\ Applied("interpretZScore") =>
          probe.result[1] =
              Bucket(IF probe.invertZscore THEN -probe.zscore ELSE probe.zscore)
    /\ Assembled(analysisResults) =>
          \A n \in DOMAIN analysisResults.regions :
              analysisResults.regions[n].interpretation
                  = Bucket(analysisResults.regions[n].effectiveZscore)

\* C4: interpretZScore(1.5, true) has returned low-normal: the boundary -1.5
\* of the effective z-score of an inverted region, in the better bucket
C4_BoundaryOfInvertedRegion ==
    /\ Applied("interpretZScore")
    /\ probe.zscore = 150
    /\ probe.invertZscore
    /\ probe.result[1] = "low-normal"

\* The z-scores of a region at a volume and at a larger one (all else fixed)
\* have been computed, the region being inverted or not
ComparedAt(inverted) ==
    /\ Applied("RegionResult")
    /\ probe.volume < probe.larger
    /\ probe.result[1].at.invertZscore = inverted

\* C5 (as stated): for fixed age, sex and ICV the reported z-score of a
\* non-inverted region is strictly increasing in its raw volume, and the
\* reported effective z-score of an inverted region strictly decreasing.
\* Violated: the z-score is rounded to two decimals and the normalized volume
\* is floored at 0, so distinct volumes can report the same z-score.
C5_ZscoreStrictlyMonotonic ==
    /\ ComparedAt(FALSE) => probe.result[1].at.zscore < probe.result[1].atLarger.zscore
    /\ ComparedAt(TRUE) =>
          probe.result[1].at.effectiveZscore > probe.result[1].atLarger.effectiveZscore

\* C5 (amended): for fixed age, sex and ICV the reported z-score of a
\* non-inverted region never decreases when its raw volume grows, and the
\* reported effective z-score of an inverted region never increases.
C5_ZscoreMonotonic ==
    /\ ComparedAt(FALSE) => probe.result[1].at.zscore <= probe.result[1].atLarger.zscore
    /\ ComparedAt(TRUE) =>
          probe.result[1].at.effectiveZscore >= probe.result[1].atLarger.effectiveZscore

\* C5: a ventricle at two volumes whose effective z-scores differ, the larger
\* volume reporting the lower one
C5_LargerVentricleLowerZ ==
    /\ ComparedAt(TRUE)
    /\ probe.result[1].at.effectiveZscore > probe.result[1].atLarger.effectiveZscore

\* Twenty times a mixed number whose twentieths are whole
Times20(x) == 20 * x.i + (20 * x.f) \div x.d

\* C6: interpolateByAge(values, age) is values[0] for age <= 20, values[3] for
\* age >= 80, values[i] at the anchor ages 20, 40, 60, 80, and strictly between
\* two adjacent anchors the linear interpolation of the two bracketing values,
\* which lies between them.
C6_InterpolateByAge ==
    Applied("interpolateByAge") =>
        LET values == probe.ageValues
            age == probe.age
            result == probe.result[1]
            anchors == <<20, 40, 60, 80>>
        IN /\ age <= 20 => result = MxInt(values[1])
           /\ age >= 80 => result = MxInt(values[4])
           /\ \A k \in 1..4 : age = anchors[k] => result = MxInt(values[k])
           /\ \A k \in 1..3 :
                 (anchors[k] < age /\ age < anchors[k + 1]) =>
                     /\ (20 * result.f) % result.d = 0
                     /\ Times20(result) = values[k] * (anchors[k + 1] - age)
                                          + values[k + 1] * (age - anchors[k])
                     /\ MxLe(MxInt(Min(values[k], values[k + 1])), result)
                     /\ MxLe(result, MxInt(Max(values[k], values[k + 1])))

\* C6: a value interpolated at age 47, strictly between the values at 40 and 60
C6_InterpolatedBetweenAnchors ==
    /\ Applied("interpolateByAge")
    /\ probe.age = 47
    /\ probe.ageValues[2] # probe.ageValues[3]
    /\ MxLt(MxInt(Min(probe.ageValues[2], probe.ageValues[3])), probe.result[1])
    /\ MxLt(probe.result[1], MxInt(Max(probe.ageValues[2], probe.ageValues[3])))

\* C7: for every non-negative raw volume, region, ICV and sex the normalized
\* volume applyICVNormalization returns is not negative, and neither is the
\* normalized volume stored for any region of a report.
C7_NormalizedVolumeNotNegative ==
    /\ Applied("applyICVNormalization") => MxLe(MxInt(0), probe.result[1])
    /\ Assembled(analysisResults) =>
          \A n \in DOMAIN analysisResults.regions :
              analysisResults.regions[n].normalizedVolume >= 0

\* C7: a hippocampus of 100 mm3 in a head one reference SD or more above the
\* mean ICV (a correction of 0.0037 mm3 per mm3 of ICV, more than 100 mm3) has
\* been normalized to 0 by the floor
C7_FlooredAtZero ==
    /\ Applied("applyICVNormalization")
    /\ probe.volume = 100
    /\ probe.region = "Hippocampus"
    /\ probe.icv >= ICV_REFERENCE.mean[probe.sex] + ICV_REFERENCE.sd[probe.sex]
    /\ probe.result[1] = MxInt(0)

\* The interpretation and the conversion risk of the documented bands for a
\* HOC value in thousandths
HocBand(value) ==
    IF value >= 800 THEN <<"Normal", "Low">>
    ELSE IF value >= 700 THEN <<"Mild", "Moderate">>
    ELSE IF value >= 600 THEN <<"Moderate", "High">>
    ELSE <<"Severe", "Very High">>

\* A HOC result carries the labels of the band of the value it reports
LabelledByValue(hoc) ==
    hoc.value # Null =>
        <<hoc.interpretation, hoc.conversionRisk>> = HocBand(hoc.value[1])

\* C9: every HOC result with a non-null value carries the interpretation and
\* the conversion risk of the band its reported value lies in (>= 0.80
\* Normal/Low, [0.70, 0.80) Mild/Moderate, [0.60, 0.70) Moderate/High, < 0.60
\* Severe/Very High).  Violated: the bands are applied to the unrounded score
\* and the value is rounded to three decimals afterwards, so a score in
\* [0.7995, 0.8) is reported as 0.800 and labelled Mild/Moderate.
C9_HocLabelsFollowReportedValue ==
    /\ Applied("calculateHOC") => LabelledByValue(probe.result[1])
    /\ Assembled(analysisResults) => LabelledByValue(analysisResults.hoc)

\* C9: calculateHOC has reported the value 0.800 with the interpretation Mild
C9_MildAtReportedNormalValue ==
    /\ Applied("calculateHOC")
    /\ probe.result[1].value = Num(800)
    /\ probe.result[1].interpretation = "Mild"
    /\ probe.result[1].conversionRisk = "Moderate"

\* The BPF interpretation of the documented thresholds for a z-score in
\* hundredths
BpfBand(zscore) ==
    IF zscore >= -100 THEN "Normal"
    ELSE IF zscore >= -150 THEN "Mild Atrophy"
    ELSE IF zscore >= -200 THEN "Moderate Atrophy"
    ELSE "Severe Atrophy"

\* C10: the BPF interpretation is normal for a BPF z-score >= -1.0, mild for
\* one >= -1.5, moderate for one >= -2.0 and severe for every one below -2.0.
\* Violated: calculateBPF has five labels, Low-Normal for [-1.5, -1.0), Mild
\* Atrophy for [-2.0, -1.5), Moderate Atrophy for [-2.5, -2.0) and Severe
\* Atrophy only below -2.5.
C10_BpfInterpretationFollowsThresholds ==
    /\ Applied("calculateBPF") =>
          probe.result[1].interpretation = BpfBand(probe.result[1].zscore)
    /\ Assembled(analysisResults) =>
          analysisResults.bpf.interpretation = BpfBand(analysisResults.bpf.zscore)

\* C10: calculateBPF has labelled a z-score of -2.20 Moderate Atrophy
C10_ModerateBelowMinusTwo ==
    /\ Applied("calculateBPF")
    /\ probe.result[1].zscore = -220
    /\ probe.result[1].interpretation = "Moderate Atrophy"

\* The patterns and summaries the code derives from a HOC value
HocPatterns ==
    {"Early MCI / Subtle Medial Temporal Changes",
     "Early medial temporal changes (HOC-based)",
     "Subtle medial temporal changes",
     "Borderline medial temporal findings"}

\* The observation an analysis ran on has no Hippocampus volume, or a zero one
NoHippocampusAnalysed ==
    /\ regionVolumes # Null
    /\ analysisResults # Null
    /\ VolumeOf(regionVolumes.entries, "Hippocampus") = 0

\* C8: when the hippocampus volume is 0 or the Hippocampus region is absent,
\* calculateHOC returns value = null with its explanatory interpretation, and
\* the analysis still completes: the report is fully assembled (verdict,
\* patterns, standardized scores, findings, validation), the run ends with
\* "Analysis complete", and HOC enters no rule: the verdict is the cascade's
\* without its HOC terms, no finding is of type "hoc", no clinical pattern and
\* no summary pattern is a HOC one, and the summary does not flag HOC.
C8_NoHippocampusNoHoc ==
    /\ (Applied("calculateHOC") /\ VolumeOf(probe.volumes, "Hippocampus") = 0)
         => probe.result[1] =
              [value |-> Null,
               interpretation |-> "Unable to calculate - hippocampus not segmented"]
    /\ NoHippocampusAnalysed =>
         /\ analysisResults.hoc =
              [value |-> Null,
               interpretation |-> "Unable to calculate - hippocampus not segmented"]
         /\ Assembled(analysisResults)
         /\ \E r \in Runs : runs[r] = [pc |-> "done", outcome |-> "Analysis complete"]
         /\ analysisResults.atrophyRisk = CascadeVerdict(analysisResults)
         /\ \A n \in DOMAIN analysisResults.findings :
               analysisResults.findings[n].type # "hoc"
         /\ \A n \in DOMAIN analysisResults.clinicalPatterns :
               analysisResults.clinicalPatterns[n].pattern \notin HocPatterns
         /\ analysisResults.standardizedScores.summary.overallPattern \notin HocPatterns
         /\ ~analysisResults.standardizedScores.summary.hocAbnormal
         /\ "isValid" \in DOMAIN analysisResults.validation

\* An analysis of a scan whose segmentation has no hippocampus label, whose
\* inferior lateral ventricle is present, ran to its end
C8_AnalysedWithoutHippocampus ==
    /\ NoHippocampusAnalysed
    /\ VolumeOf(regionVolumes.entries, "Inferior-Lateral-Ventricle") > 0
    /\ \A n \in DOMAIN regionVolumes.entries :
          regionVolumes.entries[n].region # "Hippocampus"
    /\ analysisResults.hoc.value = Null
    /\ analysisResults.atrophyRisk # "Unknown"
    /\ "summary" \in DOMAIN analysisResults.standardizedScores

\* The physiological band of a sex: icvMean - 3 SD .. icvMean + 3 SD
IcvBand(sex) ==
    (ICV_REFERENCE.mean[sex] - 3 * ICV_REFERENCE.sd[sex])
      .. (ICV_REFERENCE.mean[sex] + 3 * ICV_REFERENCE.sd[sex])

\* The estimate the claim describes: parenchymal / expectedBPF, replaced by
\* its average with 1.12 x segmentedTotal exactly when outside the band, then
\* floored at 1.05 x segmentedTotal, capped at the upper and floored at the
\* lower bound, and rounded
IcvByRule(volumes, age, sex) ==
    LET parenchymal == SumVolumes(volumes, FALSE)
        segmentedTotal == parenchymal + SumVolumes(volumes, TRUE)
        lo == MxInt(ICV_REFERENCE.mean[sex] - 3 * ICV_REFERENCE.sd[sex])
        hi == MxInt(ICV_REFERENCE.mean[sex] + 3 * ICV_REFERENCE.sd[sex])
        primary == Mx(parenchymal * 100, BPF_NORMATIVE_byAge[AgeDecade(age, 20)].mean)
        outside == MxLt(primary, lo) \/ MxLt(hi, primary)
        chosen == IF outside
                  THEN MxHalf(MxAdd(primary, Mx(segmentedTotal * 112, 100)))
                  ELSE primary
    IN MxRound(MxMax(MxMin(MxMax(chosen, Mx(segmentedTotal * 105, 100)), hi), lo))

\* C11: for every observation, age and sex, estimateICV returns an integer in
\* the band of the sex, and it is the rule's estimate (the BPF-based primary,
\* averaged with the anatomical one exactly when outside the band, then
\* clamped); the ICV stored in a report lies in the band as well.
C11_EstimateICVInBand ==
    /\ Applied("estimateICV") =>
         /\ probe.result[1] \in IcvBand(probe.sex)
         /\ probe.result[1] = IcvByRule(probe.volumes, probe.age, probe.sex)
    /\ Assembled(analysisResults) => analysisResults.icv \in IcvBand(analysisResults.sex)

\* A primary estimate above the band (1500000 / 0.72) was averaged with the
\* anatomical one, and the result lies strictly inside the band
C11_AveragedIntoBand ==
    /\ Applied("estimateICV")
    /\ probe.volumes = <<Entry("Cerebral-Cortex", 1500000), Entry("Lateral-Ventricle", 0)>>
    /\ probe.age = 80
    /\ probe.sex = "male"
    /\ probe.result[1] = 1881667

\* The MTA threshold of the claim, in halves of a point: 1.0 below 65, 1.5
\* below 75, 2.0 below 85, 2.5 from 85 on
MtaThresholdByAge(age) ==
    IF age < 65 THEN 2 ELSE IF age < 75 THEN 3 ELSE IF age < 85 THEN 4 ELSE 5

\* An MTA result follows the claim's threshold for the age
MtaFollowsThreshold(mta, age) ==
    /\ mta.ageThreshold = MtaThresholdByAge(age)
    /\ mta.isAbnormal <=> mta.score > mta.ageThreshold

\* C12: for every age the MTA threshold is 1.0 / 1.5 / 2.0 / 2.5 by the age
\* bands < 65, < 75, < 85, >= 85 (ages of 100 and above included), and
\* isAbnormal holds iff the MTA score is strictly greater than the threshold,
\* for calculateMTAScore and for the MTA score stored in a report.
C12_MtaThresholdFollowsAge ==
    /\ Applied("calculateMTAScore") => MtaFollowsThreshold(probe.result[1], probe.age)
    /\ Assembled(analysisResults) =>
         MtaFollowsThreshold(analysisResults.standardizedScores.mta, analysisResults.age)

\* At age 100 an MTA score of 2.5 was judged against 2.0 and called abnormal
C12_HundredJudgedAtTwo ==
    /\ Applied("calculateMTAScore")
    /\ probe.age = 100
    /\ probe.result[1].score = 5
    /\ probe.result[1].ageThreshold = 4
    /\ probe.result[1].isAbnormal

\* The analysis of the scenario ran: male, 70, hippocampus 6000, every other
\* reference region at its expected mean
ScenarioAnalysed ==
    /\ regionVolumes # Null
    /\ regionVolumes.entries = ScenarioVolumes
    /\ Assembled(analysisResults)
    /\ analysisResults.age = 70
    /\ analysisResults.sex = "male"

\* The hippocampus entry of the report's regions
HippocampusEntry(report) ==
    report.regions[CHOOSE n \in DOMAIN report.regions :
                      report.regions[n].region = "Hippocampus"]

\* C13 as claimed: in the scenario the report has hippocampal expected mean
\* 6900, z-score -1.26, interpretation low-normal, and a verdict that is
\* neither Moderate nor High.
C13_ScenarioAsClaimed ==
    ScenarioAnalysed =>
      /\ HippocampusEntry(analysisResults).expectedVolume = 6900
      /\ HippocampusEntry(analysisResults).zscore = -126
      /\ HippocampusEntry(analysisResults).interpretation = "low-normal"
      /\ analysisResults.atrophyRisk \notin {"Moderate", "High"}

\* C13 amended: in the scenario the ICV is estimated at 1373197, below the
\* reference mean, so the hippocampus is normalized to 6654 and the report has
\* expected mean 6900, z-score -0.34, interpretation normal; z = -1.26 and
\* low-normal are what the same volume scores at the reference ICV; the
\* verdict is Mild (from the HOC of 0.736), neither Moderate nor High.
C13_ScenarioWithNormalization ==
    ScenarioAnalysed =>
      /\ analysisResults.icv = 1373197
      /\ HippocampusEntry(analysisResults).expectedVolume = 6900
      /\ HippocampusEntry(analysisResults).normalizedVolume = 6654
      /\ HippocampusEntry(analysisResults).zscore = -34
      /\ HippocampusEntry(analysisResults).interpretation = "normal"
      /\ LET atReference == RegionResult(Entry("Hippocampus", 6000),
                                         ICV_REFERENCE.mean.male, 70, "male")
         IN atReference.zscore = -126 /\ atReference.interpretation = "low-normal"
      /\ analysisResults.hoc.value = Num(736)
      /\ analysisResults.atrophyRisk = "Mild"

\* The scenario was analysed and its hippocampus scored above -1.0
C13_ScenarioScoredNormal ==
    /\ ScenarioAnalysed
    /\ HippocampusEntry(analysisResults).zscore > -100
    /\ \E r \in Runs : runs[r].pc = "done" /\ runs[r].outcome = "Analysis complete"

\* C14: the report at hand is the analysis of the observation, age and sex
\* at hand and of nothing else: whatever was loaded, analysed or exported
\* before, in whatever interleaving, two analyses of the same region volumes,
\* age and sex leave the same report, and no finding or field of an earlier
\* report carries over.  (The reference tables are definitions: no statement
\* of the code assigns into them.)
C14_ReportDependsOnInputsOnly ==
    Assembled(analysisResults) =>
      /\ regionVolumes # Null
      /\ analysisResults = analyzeAtrophy(regionVolumes.entries, patientAge, patientSex)

\* A second analysis completed in a session whose first analysis, of another
\* scan, had left a report with findings
C14_SecondAnalysisAfterAnother ==
    /\ \A r \in {1, 2} : runs[r].pc = "done" /\ runs[r].outcome = "Analysis complete"
    /\ loads[1].pc = "ready" /\ loads[2].pc = "ready"
    /\ loads[1].file # loads[2].file
    /\ analyzeAtrophy(loads[1].file.counts, patientAge, patientSex).findings # << >>
    /\ Assembled(analysisResults)
    /\ analysisResults = analyzeAtrophy(loads[2].file.counts, patientAge, patientSex)

\* C15 as stated: the Evans Index value calculateEvansIndex returns is
\* strictly increasing in lateral-ventricle volume at a fixed ICV and strictly
\* decreasing in ICV at a fixed lateral-ventricle volume
C15_EvansStrictlyMonotone ==
    Applied("calculateEvansIndex") =>
      /\ probe.result[1].at.value[1] < probe.result[1].atLargerVolume.value[1]
      /\ probe.result[1].at.value[1] > probe.result[1].atLargerIcv.value[1]

\* C15: the Evans Index value calculateEvansIndex returns, a number of
\* hundredths, never decreases when the lateral-ventricle volume grows at a
\* fixed ICV and never increases when the ICV grows at a fixed volume; it is
\* defined for every positive volume and ICV
C15_EvansMonotoneInHundredths ==
    Applied("calculateEvansIndex") =>
      /\ probe.result[1].at.value # Null
      /\ probe.result[1].at.value[1] <= probe.result[1].atLargerVolume.value[1]
      /\ probe.result[1].at.value[1] >= probe.result[1].atLargerIcv.value[1]

\* Two neighbouring lateral-ventricle volumes and two neighbouring ICVs that
\* share the value 0.12
C15_EvansEqualAtNeighbours ==
    /\ Applied("calculateEvansIndex")
    /\ probe.volume = 20000 /\ probe.larger = 20001
    /\ probe.icv = 1500000 /\ probe.largerIcv = 1500001
    /\ probe.result[1].at.value = Num(12)
    /\ probe.result[1].atLargerVolume.value = Num(12)
    /\ probe.result[1].atLargerIcv.value = Num(12)

\* The findings analyzeAtrophy holds when it calls validateAnalysisResults
FindingsBeforeValidation(report) ==
    SortFindings(BpfFindings(report.bpf) \o HocFindings(report.hoc)
                 \o RegionFindings(report.regions))

\* An analysis that got as far as validateAnalysisResults ends with a
\* validated report: a run fails in the regions loop or not at all
AnalysisRunsToItsEnd ==
    \A r \in Runs :
       runs[r].pc = "done" /\ regionVolumes # Null =>
         Assembled(analysisResults) \/ AnalysisThrows(regionVolumes.entries)

\* C16: validation is advisory only.  Every analysis that reaches the
\* validation runs to its end, and in the report it leaves every computed field (regions and
\* their z-scores, ICV, BPF, HOC, standardized scores, patterns, verdict and
\* description) is what the analysis computed from the observation; the
\* validation record is the validation of that report, and the findings are
\* the sorted findings of the analysis followed by one info finding of type
\* validation per warning.
C16_ValidationOnlyAnnotates ==
    /\ AnalysisRunsToItsEnd
    /\ Assembled(analysisResults) =>
      LET report == analysisResults
          volumes == regionVolumes.entries
          risk == AtrophyRisk(report.regions, report.hoc.value, Num(report.bpf.zscore))
          before == FindingsBeforeValidation(report)
      IN /\ report.icv = estimateICV(volumes, report.age, report.sex)
         /\ report.regions = AnalyzeRegions(volumes, report.icv, report.age, report.sex)
         /\ report.bpf = calculateBPF(volumes, report.icv, report.age)
         /\ report.hoc = calculateHOC(volumes, report.age)
         /\ report.totalBrainVolume = SumVolumes(volumes, FALSE)
         /\ report.standardizedScores =
              calculateStandardizedScores(volumes, report.regions, report.age,
                                          report.icv, report.hoc.value)
         /\ report.clinicalPatterns = detectClinicalPatterns(report)
         /\ report.atrophyRisk = risk.atrophyRisk
         /\ report.riskDescription = risk.riskDescription
         /\ report.validation = validateAnalysisResults(report)
         /\ Len(report.findings) = Len(before) + Len(report.validation.warnings)
         /\ SubSeq(report.findings, 1, Len(before)) = before
         /\ \A n \in (Len(before) + 1)..Len(report.findings) :
               report.findings[n] = [severity |-> "info", type |-> "validation"]

\* A report whose validation produced warnings, with findings of the analysis
\* ahead of the validation notes
C16_ValidatedWithWarnings ==
    /\ Assembled(analysisResults)
    /\ Len(analysisResults.validation.warnings) >= 2
    /\ \E n \in DOMAIN analysisResults.regions : Abs(analysisResults.regions[n].zscore) > 350
    /\ Len(analysisResults.findings) > Len(analysisResults.validation.warnings)
    /\ \E r \in Runs : runs[r].pc = "done" /\ runs[r].outcome = "Analysis complete"

\* Regions of a report whose stored z-score is further than 3.5 from 0
ExtremeRegions(report) ==
    {n \in DOMAIN report.regions : Abs(report.regions[n].zscore) > 350}

Issues(report) ==
    {report.validation.flags.possibleIssues[n] :
       n \in DOMAIN report.validation.flags.possibleIssues}

\* C17: in the validation record of a report, possibleIssues contains
\* multiple_extreme_zscores iff at least 3 regions have |zscore| > 3.5;
\* overallQuality is review_recommended iff that is so or the BPF value
\* exceeds 0.92, and good otherwise; isValid is true iff there is no warning,
\* and no issue is listed without a warning.
C17_ValidationFlags ==
    Assembled(analysisResults) =>
      LET report == analysisResults
          validation == report.validation
          manyExtreme == Cardinality(ExtremeRegions(report)) >= 3
      IN /\ "multiple_extreme_zscores" \in Issues(report) <=> manyExtreme
         /\ validation.flags.overallQuality = "review_recommended"
              <=> (manyExtreme \/ report.bpf.value > 920)
         /\ validation.flags.overallQuality \in {"review_recommended", "good"}
         /\ validation.isValid <=> validation.warnings = << >>
         /\ Issues(report) # {} => ~validation.isValid
         /\ Len(validation.warnings) >= Cardinality(ExtremeRegions(report))

\* A report with three regions or more beyond 3.5, for which review is
\* recommended
C17_ReviewForManyExtremes ==
    /\ Assembled(analysisResults)
    /\ Cardinality(ExtremeRegions(analysisResults)) >= 3
    /\ ~(analysisResults.bpf.value > 920)
    /\ "multiple_extreme_zscores" \in Issues(analysisResults)
    /\ analysisResults.validation.flags.overallQuality = "review_recommended"
    /\ ~analysisResults.validation.isValid

\* The reference key of a label by the first matching step of: exact key,
\* whitespace-to-hyphen normalized key, case- and separator-insensitive
\* substring match (first key in table order), alias table; Null if none
FirstMatchingStep(label) ==
    LET normalizedName == replaceWhitespaceRuns(label, FALSE)
        lowerName == stripSeparators(toLowerCase(label))
        matching == {n \in DOMAIN RegionKeys : FuzzyMatches(lowerName, RegionKeys[n])}
    IN IF label \in RegionKeySet THEN << label >>
       ELSE IF normalizedName \in RegionKeySet THEN << normalizedName >>
       ELSE IF matching # {}
       THEN << RegionKeys[CHOOSE n \in matching : \A m \in matching : n <= m] >>
       ELSE IF lowerName \in DOMAIN Aliases THEN << Aliases[lowerName] >>
       ELSE Null

\* The labels of the entries of a report's regions map
ReportedLabels(report) == {report.regions[n].region : n \in DOMAIN report.regions}

\* C18 as stated: findNormativeData resolves a label by the first matching
\* step (exact key, normalized key, substring match, alias table); every
\* table key resolves to itself; a label matching no step yields null, its
\* region has no entry in the report's regions map, and the analysis still
\* completes without error.
C18_ResolvedByFirstMatchingStep ==
    /\ Applied("findNormativeData") =>
         /\ probe.result[1] = FirstMatchingStep(probe.regionName)
         /\ probe.regionName \in RegionKeySet => probe.result[1] = << probe.regionName >>
    /\ \A r \in Runs :
          runs[r].pc = "done" /\ regionVolumes # Null =>
            /\ runs[r].outcome = "Analysis complete"
            /\ Assembled(analysisResults)
            /\ \A n \in DOMAIN regionVolumes.entries :
                  FirstMatchingStep(regionVolumes.entries[n].region) = Null
                    <=> regionVolumes.entries[n].region \notin ReportedLabels(analysisResults)

\* The analysis of an observation with a region labelled "constructor", a
\* label no step matches: the label resolved, and the analysis failed in the
\* regions loop leaving a report without verdict
C18_InheritedMemberFailsAnalysis ==
    /\ regionVolumes # Null
    /\ \E n \in DOMAIN regionVolumes.entries :
          /\ regionVolumes.entries[n].region = "constructor"
          /\ FirstMatchingStep("constructor") = Null
          /\ findNormativeData("constructor") # Null
    /\ \E r \in Runs : runs[r].pc = "done" /\ runs[r].outcome = "Analysis failed"
    /\ ~Assembled(analysisResults)
    /\ analysisResults.atrophyRisk = "Unknown"
    /\ ReportedLabels(analysisResults) = {"Lateral-Ventricle"}

\* Reports to compare a report with: the analyses, at age 70 and male, of the
\* empty observation and of the scenario with a hippocampus of 6000
PeerReports == {analyzeAtrophy(volumes, 70, "male") : volumes \in {<< >>, ScenarioVolumes}}

\* C19 as stated: the risk description is a fixed string per verdict: two
\* reports with the same atrophyRisk have the same riskDescription
C19_DescriptionFixedPerVerdict ==
    Assembled(analysisResults) =>
      \A peer \in PeerReports :
         peer.atrophyRisk = analysisResults.atrophyRisk
           => peer.riskDescription = analysisResults.riskDescription

\* The HOC value of the report is a number other than 0 and below t thousandths
HocReducedBelow(report, t) == Truthy(report.hoc.value) /\ report.hoc.value[1] < t

\* C19: the risk description is fixed by the verdict and, for Mild and
\* Low-Normal, by whether the HOC value is reduced: Mild reads "Subtle medial
\* temporal changes ..." when the HOC value is a non-zero number below 0.75
\* and "Mild volume reductions ..." otherwise; Low-Normal reads "HOC in
\* low-normal range ..." when the HOC value is a non-zero number below 0.80
\* and "Volumes in low-normal range for age" otherwise; High, Moderate and
\* Normal have one description each.
C19_DescriptionFollowsVerdictAndHoc ==
    Assembled(analysisResults) =>
      analysisResults.riskDescription =
        CASE analysisResults.atrophyRisk = "High" ->
               "Significant atrophy detected - clinical correlation strongly recommended"
          [] analysisResults.atrophyRisk = "Moderate" ->
               "Notable atrophy present - consider neuropsychological evaluation"
          [] analysisResults.atrophyRisk = "Mild" ->
               IF HocReducedBelow(analysisResults, 750)
               THEN "Subtle medial temporal changes detected (HOC reduced) - neuropsychological evaluation recommended"
               ELSE "Mild volume reductions detected - monitoring recommended"
          [] analysisResults.atrophyRisk = "Low-Normal" ->
               IF HocReducedBelow(analysisResults, 800)
               THEN "HOC in low-normal range - consider baseline for future comparison"
               ELSE "Volumes in low-normal range for age"
          [] analysisResults.atrophyRisk = "Normal" ->
               "Volumes within expected range for age and sex"

\* A Mild report described by its reduced HOC, while the Mild report of the
\* empty observation is described by its volume reductions
C19_MildDescribedByHoc ==
    /\ Assembled(analysisResults)
    /\ analysisResults.atrophyRisk = "Mild"
    /\ HocReducedBelow(analysisResults, 750)
    /\ analysisResults.riskDescription =
         "Subtle medial temporal changes detected (HOC reduced) - neuropsychological evaluation recommended"
    /\ \E peer \in PeerReports :
          /\ peer.atrophyRisk = "Mild"
          /\ peer.riskDescription = "Mild volume reductions detected - monitoring recommended"

\* The Alzheimer's patterns among the clinical patterns of a report
AlzheimerPatterns(report) ==
    SelectSeq(report.clinicalPatterns,
              LAMBDA p : p.pattern = "Alzheimer's Disease Pattern")

\* The effective z-score stored for the region labelled so, or Undefined
EffectiveZ(report, label) == RegionField(report.regions, label, "effectiveZscore")

\* The points of the Alzheimer's pattern for a report with a hippocampal
\* effective z-score: +3 if it is below -2.0 and else +2, +2 if the HOC value
\* is below 0.75, +1 if the amygdala effective z-score is below -1.5
AlzheimerPoints(report) ==
    (IF EffectiveZ(report, "Hippocampus")[1] < -200 THEN 3 ELSE 2)
    + (IF report.hoc.value # Null /\ report.hoc.value[1] < 750 THEN 2 ELSE 0)
    + (IF EffectiveZ(report, "Amygdala") # Undefined
          /\ EffectiveZ(report, "Amygdala")[1] < -150 THEN 1 ELSE 0)

\* C20 as stated: the Alzheimer's pattern is emitted iff the hippocampal
\* effective z-score is defined and below -1.5 and the accumulated points are
\* at least 3, with confidence High iff the points are at least 5 and
\* Moderate otherwise
C20_AlzheimerPatternByPoints ==
    Assembled(analysisResults) =>
      LET report == analysisResults
          hippoZ == EffectiveZ(report, "Hippocampus")
          emitted == AlzheimerPatterns(report)
      IN IF hippoZ # Undefined /\ hippoZ[1] < -150 /\ AlzheimerPoints(report) >= 3
         THEN /\ Len(emitted) = 1
              /\ emitted[1].confidence =
                   IF AlzheimerPoints(report) >= 5 THEN "High" ELSE "Moderate"
         ELSE emitted = << >>

\* A report with a hippocampal effective z-score below -2.0 and an HOC value
\* of 0, whose Alzheimer's pattern has confidence Moderate
C20_ZeroHocNotCounted ==
    /\ Assembled(analysisResults)
    /\ EffectiveZ(analysisResults, "Hippocampus") # Undefined
    /\ EffectiveZ(analysisResults, "Hippocampus")[1] < -200
    /\ analysisResults.hoc.value = Num(0)
    /\ AlzheimerPoints(analysisResults) >= 5
    /\ Len(AlzheimerPatterns(analysisResults)) = 1
    /\ AlzheimerPatterns(analysisResults)[1].confidence = "Moderate"

\* The Early-MCI patterns among the clinical patterns of a report
EarlyMciPatterns(report) ==
    SelectSeq(report.clinicalPatterns,
              LAMBDA p : p.pattern = "Early MCI / Subtle Medial Temporal Changes")

\* The base confidence of the Early-MCI pattern by the HOC value (thousandths)
MciBaseConfidence(report) ==
    IF report.hoc.value[1] < 700 THEN "Moderate"
    ELSE IF report.hoc.value[1] < 750 THEN "Low-Moderate" ELSE "Low"

\* The inferior-lateral-ventricle z-score of the report is above 0.5
TemporalHornEnlarged(report) ==
    LET ilvZ == RegionField(report.regions, "Inferior-Lateral-Ventricle", "zscore")
    IN ilvZ # Undefined /\ ilvZ[1] > 50

\* One level up on the scale Low < Low-Moderate < Moderate < High
OneLevelAbove(confidence) ==
    CASE confidence = "Low" -> "Low-Moderate"
      [] confidence = "Low-Moderate" -> "Moderate"
      [] confidence = "Moderate" -> "High"

\* C21 as stated: when the Early-MCI pattern fires its confidence is the base
\* by the HOC value (Moderate below 0.70, Low-Moderate below 0.75, else Low),
\* and exactly one level above the base whenever the inferior-lateral-ventricle
\* z-score is above 0.5
C21_MciConfidenceOneLevelAbove ==
    Assembled(analysisResults) /\ EarlyMciPatterns(analysisResults) # << >> =>
      EarlyMciPatterns(analysisResults)[1].confidence =
        IF TemporalHornEnlarged(analysisResults)
        THEN OneLevelAbove(MciBaseConfidence(analysisResults))
        ELSE MciBaseConfidence(analysisResults)

\* C21: the Early-MCI pattern fires iff the HOC value is a non-zero number
\* below 0.80 and the hippocampal effective z-score is undefined or at least
\* -1.5; its confidence is the base by the HOC value, raised by one level when
\* the inferior-lateral-ventricle z-score is above 0.5 but never above
\* Moderate: a base of Moderate stays Moderate.
C21_MciConfidenceRaisedUpToModerate ==
    Assembled(analysisResults) =>
      LET report == analysisResults
          hippoZ == EffectiveZ(report, "Hippocampus")
          fires == /\ Truthy(report.hoc.value) /\ report.hoc.value[1] < 800
                   /\ (hippoZ = Undefined \/ hippoZ[1] >= -150)
          base == MciBaseConfidence(report)
      IN IF fires
         THEN /\ Len(EarlyMciPatterns(report)) = 1
              /\ EarlyMciPatterns(report)[1].confidence =
                   IF TemporalHornEnlarged(report) /\ base # "Moderate"
                   THEN OneLevelAbove(base) ELSE base
         ELSE EarlyMciPatterns(report) = << >>

\* An Early-MCI pattern with an HOC value below 0.70 and an enlarged temporal
\* horn, whose confidence is Moderate
C21_ModerateNotRaised ==
    /\ Assembled(analysisResults)
    /\ Len(EarlyMciPatterns(analysisResults)) = 1
    /\ analysisResults.hoc.value[1] < 700
    /\ TemporalHornEnlarged(analysisResults)
    /\ EarlyMciPatterns(analysisResults)[1].confidence = "Moderate"

\* The Normal-Aging patterns among the clinical patterns of a report
NormalAgingPatterns(report) ==
    SelectSeq(report.clinicalPatterns, LAMBDA p : p.pattern = "Normal Aging Pattern")

\* The report's BPF z-score is at least -1.5, its hippocampal effective
\* z-score at least -1.5 or undefined, its HOC value at least 0.80 or undefined
WithinNormalAging(report) ==
    /\ report.bpf.zscore >= -150
    /\ \/ EffectiveZ(report, "Hippocampus") = Undefined
       \/ EffectiveZ(report, "Hippocampus")[1] >= -150
    /\ report.hoc.value = Null \/ report.hoc.value[1] >= 800

\* C22 as stated: the list of clinical patterns is never empty; the
\* Normal-Aging pattern is in it iff no other pattern fired, and is then the
\* only entry; its confidence is High iff the BPF z-score is at least -1.5,
\* the hippocampal z-score at least -1.5 or undefined and the HOC value at
\* least 0.80 or undefined, a z-score of exactly 0 included; else Moderate
C22_NormalAgingConfidence ==
    Assembled(analysisResults) =>
      LET report == analysisResults
          normal == NormalAgingPatterns(report)
      IN /\ report.clinicalPatterns # << >>
         /\ normal # << >> <=> Len(normal) = Len(report.clinicalPatterns)
         /\ Len(normal) <= 1
         /\ normal # << >> =>
              normal[1].confidence = IF WithinNormalAging(report) THEN "High" ELSE "Moderate"

\* A report with a BPF z-score of exactly 0, a hippocampal z-score of at
\* least -1.5 and an HOC value of at least 0.80, whose only pattern is Normal
\* Aging with confidence Moderate
C22_ZeroBpfZscoreModerate ==
    /\ Assembled(analysisResults)
    /\ analysisResults.bpf.zscore = 0
    /\ EffectiveZ(analysisResults, "Hippocampus") # Undefined
    /\ WithinNormalAging(analysisResults)
    /\ analysisResults.clinicalPatterns =
         << [pattern |-> "Normal Aging Pattern", confidence |-> "Moderate"] >>

\* The analysis of the observation at hand at the age entered, whatever it is
AnalysisAtEnteredAge ==
    AnalyzeWithICV(regionVolumes.entries, patientAge, patientSex,
                   estimateICV(regionVolumes.entries, patientAge, patientSex))

\* C23 as stated: every numeric age entered, 0 included, is used as entered
\* (the lookups clamp it into their range) and never replaced by another
\* age: the ICV, the regions with their expected means and z-scores, the BPF
\* and HOC biomarkers and the standardized scores with their thresholds are
\* those of the analysis at the entered age
C23_EnteredAgeIsUsed ==
    Assembled(analysisResults) =>
      /\ analysisResults.age = patientAge
      /\ analysisResults.icv = AnalysisAtEnteredAge.icv
      /\ analysisResults.regions = AnalysisAtEnteredAge.regions
      /\ analysisResults.bpf = AnalysisAtEnteredAge.bpf
      /\ analysisResults.hoc = AnalysisAtEnteredAge.hoc
      /\ analysisResults.standardizedScores = AnalysisAtEnteredAge.standardizedScores

\* The report of an analysis at an entered age of 0: its age is 65, the
\* expected hippocampal volume is the mean interpolated at 65 and not the
\* age-20 anchor mean, and the MTA threshold is 1.5 and not 1.0
C23_ZeroAgeAnalysedAsSixtyFive ==
    /\ Assembled(analysisResults)
    /\ patientAge = 0
    /\ analysisResults.age = 65
    /\ EffectiveZ(analysisResults, "Hippocampus") # Undefined
    /\ RegionField(analysisResults.regions, "Hippocampus", "expectedVolume")
         = Num(MxRound(interpolateByAge(
                 NORMATIVE_DATA_regions["Hippocampus"].mean[patientSex], 65)))
    /\ RegionField(analysisResults.regions, "Hippocampus", "expectedVolume")
         # Num(NORMATIVE_DATA_regions["Hippocampus"].mean[patientSex][1])
    /\ analysisResults.standardizedScores.mta.ageThreshold = 3
    /\ AnalysisAtEnteredAge.standardizedScores.mta.ageThreshold = 2

\* The segmented total of an observation: parenchymal plus ventricular volume
SegmentedTotal(volumes) == SumVolumes(volumes, FALSE) + SumVolumes(volumes, TRUE)

\* icv is at least 1.05 times the segmented total, to the nearest integer
AtLeastFloor(icv, volumes) == 100 * icv + 50 >= 105 * SegmentedTotal(volumes)

NormalizedByResolvedKey(report, entry) ==
    applyICVNormalization(entry.volume, entry.matchedName, report.icv, report.sex)

\* C25 as stated: every region whose label resolves to a reference key with a
\* tabulated coefficient b is z-scored on max(0, volume - b * (icv - icvMean))
\* with that key's b, whichever step resolved the label; only regions whose
\* resolved key has no coefficient pass through unchanged
C25_NormalizedByResolvedKey ==
    Assembled(analysisResults) =>
      \A n \in DOMAIN analysisResults.regions :
         LET entry == analysisResults.regions[n]
             normData == NORMATIVE_DATA_regions[entry.matchedName]
         IN /\ entry.normalizedVolume =
                 MxRound(NormalizedByResolvedKey(analysisResults, entry))
            /\ entry.zscore =
                 RoundedZscore(NormalizedByResolvedKey(analysisResults, entry),
                               interpolateByAge(normData.mean[analysisResults.sex],
                                                analysisResults.age),
                               getAgeAdjustedSD(normData.sd[analysisResults.sex],
                                                analysisResults.age))

\* A region labelled "Left-Hippocampus", resolved to Hippocampus, whose
\* normalized volume is its raw volume although the coefficient of
\* Hippocampus would have changed it
C25_FuzzyLabelNotNormalized ==
    /\ Assembled(analysisResults)
    /\ \E n \in DOMAIN analysisResults.regions :
          LET entry == analysisResults.regions[n]
          IN /\ entry.region = "Left-Hippocampus"
             /\ entry.matchedName = "Hippocampus"
             /\ "Hippocampus" \in DOMAIN ICV_REGRESSION_COEFFICIENTS
             /\ entry.normalizedVolume = entry.volume
             /\ MxRound(NormalizedByResolvedKey(analysisResults, entry)) # entry.volume

\* C26 as stated: every entry of the alias table is honoured: a label that is
\* no exact and no whitespace-normalized key and whose lower-cased,
\* separator-stripped form is an alias key resolves to that alias's target
C26_AliasesHonoured ==
    Applied("findNormativeData") =>
      LET label == probe.regionName
          lowerName == stripSeparators(toLowerCase(label))
      IN /\ label \notin RegionKeySet
         /\ replaceWhitespaceRuns(label, FALSE) \notin RegionKeySet
         /\ lowerName \in DOMAIN Aliases
         => probe.result[1] = << Aliases[lowerName] >>

\* The label "inferior lateral ventricle", whose stripped form is the alias
\* key of Inferior-Lateral-Ventricle, resolved to Lateral-Ventricle
C26_InferiorLateralResolvedAsLateral ==
    /\ Applied("findNormativeData")
    /\ probe.regionName = "inferior lateral ventricle"
    /\ Aliases[stripSeparators(toLowerCase(probe.regionName))] = "Inferior-Lateral-Ventricle"
    /\ probe.result[1] = << "Lateral-Ventricle" >>

\* The invocation of runAnalysis has started and has not reached the end of
\* its finally block
InProgress(r) == runs[r].pc \notin {"idle", "done"}

\* C27 as stated: while an invocation of runAnalysis is in progress the
\* Analyze button is disabled, so that no second invocation starts before the
\* first has finished (each invocation ends in success or in a caught failure
\* with the button enabled again and the "analyzing" marker removed)
C27_ButtonGuardsRunInProgress ==
    /\ \A r \in Runs : InProgress(r) => analyzeBtnDisabled
    /\ Cardinality({r \in Runs : InProgress(r)}) <= 1

\* Two invocations of runAnalysis in progress at once: the second was started
\* after a file loaded during the first had enabled the button
C27_TwoRunsInProgress ==
    /\ InProgress(1) /\ InProgress(2)
    /\ \E i \in Loads : i > 1 /\ loads[i].pc = "ready"

\* C28 as stated: a server inference that fails (no uploaded file, or a failed
\* request) is followed by the local inference and fails the segmentation
\* stage only when the local inference cannot run either, and once the server
\* inference has succeeded the local inference is not run
C28_ServerFallsBackToLocal ==
    [][\A r \in Runs :
         /\ runs[r].pc \in {"ensureConformed", "fetch"} /\ runs'[r].pc = "done"
               => nv1 = << >>
         /\ runs[r].pc \in {"ensureConformed", "fetch"} /\ nv1 # << >>
               /\ runs'[r].pc \notin {runs[r].pc, "fetch", "displaySegmentation"}
               => runs'[r].pc = "runInference"
         /\ runs[r].pc = "displaySegmentation" /\ runs[r].by = "server"
               => runs'[r].pc # "runInference"]_vars

\* The local inference of the first analysis is running on top of the
\* segmentation the server has delivered to that same analysis
C28_LocalAfterServerSucceeded ==
    /\ runs[1].pc = "runInference"
    /\ runs[2].pc = "idle"
    /\ segmentationData # Null
    /\ uploadedFile # Null

\* The report at hand is the one a successfully completed analysis assembled
CompletedReport ==
    /\ analysisResults # Null
    /\ {"standardizedScores", "validation"} \subseteq DOMAIN analysisResults

\* C29 as stated: with the report of a successfully completed analysis at
\* hand, exportReport produces the text report (the download of
\* atrophy_report.txt) without an error
C29_ExportProducesReport ==
    [][CompletedReport /\ exported' # exported
         => exported'.outcome = "atrophy_report.txt"]_vars

\* An analysis has completed, its Evans Index has a value, and exportReport
\* has ended in a TypeError with the complete report at hand
C29_ExportThrowsOnCompletedReport ==
    /\ CompletedReport
    /\ \E r \in Runs : runs[r] = [pc |-> "done", outcome |-> "Analysis complete"]
    /\ analysisResults.standardizedScores.evansIndex.value # Null
    /\ "posteriorZscore" \notin DOMAIN analysisResults.standardizedScores.koedam
    /\ exported = [outcome |-> "TypeError"]

\* C30: whenever the Alzheimer's Disease pattern is among the clinical
\* patterns of a report its verdict is Mild, Moderate or High, and whenever
\* the verdict is Normal no region of the report has an effective z-score
\* below -1.5
C30_AlzheimerPatternAtLeastMild ==
    Assembled(analysisResults) =>
      /\ AlzheimerPatterns(analysisResults) # << >>
           => analysisResults.atrophyRisk \in {"Mild", "Moderate", "High"}
      /\ analysisResults.atrophyRisk = "Normal"
           => \A n \in DOMAIN analysisResults.regions :
                 ~(analysisResults.regions[n].effectiveZscore < -150)

\* A report with the Alzheimer's Disease pattern whose verdict is the lowest
\* the claim allows: the hippocampal effective z-score lies in [-2.0, -1.5)
\* and the verdict is Mild
C30_AlzheimerPatternWithMildVerdict ==
    /\ Assembled(analysisResults)
    /\ AlzheimerPatterns(analysisResults) # << >>
    /\ EffectiveZ(analysisResults, "Hippocampus")[1] >= -200
    /\ analysisResults.atrophyRisk = "Mild"

====
